---- MODULE Spec2Model ----
(***************************************************************************)
(* A model of the NCAA basketball betting model: the picks table kept by   *)
(* ModelPicksDB (model_picks_db.py), the bet selector (best_bets.py) and   *)
(* the confidence computations of the prediction engine (model.py).        *)
(*                                                                         *)
(* Numbers.  The Python code computes in binary floating point.  The model *)
(* computes in fixed point, with the unit named at each definition:        *)
(*   edges, spreads, totals, paces   tenths of a point                     *)
(*   value ratings                   1e-5                                  *)
(*   bet scores                      1e-4 (the code rounds them to 4       *)
(*                                   places)                               *)
(*   stored confidences              1e-3 (the code rounds them to 3       *)
(*                                   places)                               *)
(*   confidences inside predict_*    1e-8                                  *)
(* American odds are plain integers.                                       *)
(***************************************************************************)
EXTENDS Integers, Sequences, FiniteSets, TLC

(***************************************************************************)
(* Bounds of the model.                                                    *)
(***************************************************************************)
\* games of one day are numbered 1..MaxGames
MaxGames == 1

\* main() collects at most MaxBets bets before it selects the best ones
MaxBets == 7
\* edges run over -MaxEdge..MaxEdge tenths of a point
MaxEdge == 330

\* prices run from -MaxOdds to +MaxOdds
MaxOdds == 160

\* base confidences run from 0 to MaxBaseConfidence thousandths
MaxBaseConfidence == 1000

\* predicted spreads and market lines run from -MaxSpread to +MaxSpread tenths
MaxSpread == 120

\* spreads of the projected scores run from -MaxModelSpread to +MaxModelSpread points
MaxModelSpread == 30

\* market lines run from -MaxMarketLine to +MaxMarketLine points
MaxMarketLine == 45

\* per-game margins run up to MaxMargin points either way
MaxMargin == 45

\* final scores are up to MaxScoreGap points apart
MaxScoreGap == 13

VARIABLES
    model_picks,   \* the model_picks table: key -> row, or NoRow
    started,       \* the games whose start time has passed
    ret,           \* the last ModelPicksDB call and what it returned
    all_bets,      \* the bets main() has collected
    best_bets,     \* what select_best_bets returned
    pc,            \* "collect" until select_best_bets has run, then "selected"
    call           \* the last call of a pure function: its arguments and result

dbVars == <<model_picks, started, ret>>
selVars == <<all_bets, best_bets, pc>>
vars == <<model_picks, started, ret, all_bets, best_bets, pc, call>>

(***************************************************************************)
(* The picks table (model_picks_db.py).                                    *)
(***************************************************************************)
Dates == {"2025-11-21"}
Games == 1..MaxGames
BetTypes == {"spread", "total"}

\* the columns save_pick looks a row up by
Keys == Dates \X Games \X BetTypes

NoRow == [absent |-> TRUE]

NoRank == 0

\* the pick strings a re-run of the analysis may store for one bet
PickStrings == {"Duke -5.5", "UNC +5.5"}

\* the db_pick dictionaries main() builds; is_locked is always False there
DbPicks ==
    [date : Dates, game_id : Games, bet_type : BetTypes,
     pick : PickStrings, is_locked : {FALSE}]

KeyOf(pick) == <<pick.date, pick.game_id, pick.bet_type>>

\* table.insert(pick): the columns the pick does not name take their defaults
InsertRow(pick) ==
    [pick |-> pick.pick, is_locked |-> pick.is_locked,
     is_best_bet |-> FALSE, best_bet_rank |-> NoRank]

\* table.update(pick).eq('id', ...): the columns the pick names are overwritten
UpdateRow(row, pick) ==
    [row EXCEPT !.pick = pick.pick, !.is_locked = pick.is_locked]

\* save_pick with the is_locked test left out: an existing row is always updated
save_pick_ignoring_lock(table, pick) ==
    LET k == KeyOf(pick) IN
    IF table[k] # NoRow
    THEN [table |-> [table EXCEPT ![k] = UpdateRow(table[k], pick)], value |-> TRUE]
    ELSE [table |-> [table EXCEPT ![k] = InsertRow(pick)], value |-> TRUE]

\* ModelPicksDB.save_pick: the table afterwards and the value returned
save_pick(table, pick) ==
    LET k == KeyOf(pick) IN
    IF table[k] # NoRow
    THEN IF table[k].is_locked
         THEN [table |-> table, value |-> FALSE]
         ELSE [table |-> [table EXCEPT ![k] = UpdateRow(table[k], pick)],
               value |-> TRUE]
    ELSE [table |-> [table EXCEPT ![k] = InsertRow(pick)], value |-> TRUE]

\* ModelPicksDB.lock_started_games: the picks of started games become locked
lock_started_games(table, begun) ==
    [k \in Keys |->
        IF table[k] # NoRow /\ k[2] \in begun
        THEN [table[k] EXCEPT !.is_locked = TRUE]
        ELSE table[k]]

\* the rows lock_started_games changes
NewlyLocked(table, begun) ==
    {k \in Keys : table[k] # NoRow /\ k[2] \in begun /\ ~table[k].is_locked}

\* the best_bets lists handed to mark_best_bets: distinct bets, ranked by position
BestBetLists ==
    {<<>>} \cup {<<k>> : k \in Games \X BetTypes}
           \cup {b \in (Games \X BetTypes) \X (Games \X BetTypes) : b[1] # b[2]}

RECURSIVE MarkRanked(_, _, _, _)
\* the loop of mark_best_bets from position i on
MarkRanked(table, date, bets, i) ==
    IF i > Len(bets) THEN [table |-> table, updated |-> 0]
    ELSE LET k == <<date, bets[i][1], bets[i][2]>>
             hit == table[k] # NoRow
             t2 == IF hit
                   THEN [table EXCEPT ![k] =
                            [@ EXCEPT !.is_best_bet = TRUE, !.best_bet_rank = i]]
                   ELSE table
             rest == MarkRanked(t2, date, bets, i + 1)
         IN [table |-> rest.table,
             updated |-> rest.updated + (IF hit THEN 1 ELSE 0)]

\* ModelPicksDB.mark_best_bets: clear the date's flags, then flag the best bets
mark_best_bets(table, date, bets) ==
    LET cleared ==
            [k \in Keys |->
                IF table[k] # NoRow /\ k[1] = date
                THEN [table[k] EXCEPT !.is_best_bet = FALSE, !.best_bet_rank = NoRank]
                ELSE table[k]]
    IN MarkRanked(cleared, date, bets, 1)

\* value: what save_pick returned; count: what the other two returned
NoCall == [op |-> "none", value |-> FALSE, count |-> 0]

NoFn == [fn |-> "none", args |-> <<>>, out |-> <<>>]

Init ==
    /\ model_picks = [k \in Keys |-> NoRow]
    /\ started = {}
    /\ ret = NoCall
    /\ all_bets = <<>>
    /\ best_bets = <<>>
    /\ pc = "collect"
    /\ call = NoFn

SavePick(pick) ==
    LET r == save_pick(model_picks, pick) IN
    /\ model_picks' = r.table
    /\ ret' = [op |-> "save_pick", value |-> r.value, count |-> 0]
    /\ UNCHANGED <<started, selVars, call>>

LockStartedGames ==
    \E now \in SUBSET Games :
        LET begun == started \cup now IN
        /\ started' = begun
        /\ model_picks' = lock_started_games(model_picks, begun)
        /\ ret' = [op |-> "lock_started_games", value |-> FALSE,
                   count |-> Cardinality(NewlyLocked(model_picks, begun))]
        /\ UNCHANGED <<selVars, call>>

MarkBestBets ==
    \E date \in Dates, bets \in BestBetLists :
        LET r == mark_best_bets(model_picks, date, bets) IN
        /\ model_picks' = r.table
        /\ ret' = [op |-> "mark_best_bets", value |-> FALSE, count |-> r.updated]
        /\ UNCHANGED <<started, selVars, call>>

Next ==
    \/ \E pick \in DbPicks : SavePick(pick)
    \/ LockStartedGames
    \/ MarkBestBets

Spec == Init /\ [][Next]_vars

(***************************************************************************)
(* C3: a save_pick on a key whose stored pick is locked returns False and  *)
(* leaves the table as it was; a save_pick that returns True has inserted  *)
(* a row for a key that had none, or updated a row that was not locked.    *)
(***************************************************************************)
C3_SavePickRespectsLock ==
    [][\A pick \in DbPicks :
          SavePick(pick) =>
             LET k == KeyOf(pick)
                 row == model_picks[k]
             IN /\ (row # NoRow /\ row.is_locked) =>
                       (ret'.value = FALSE /\ model_picks' = model_picks)
                /\ (ret'.value = TRUE) =>
                       \/ row = NoRow /\ model_picks'[k] = InsertRow(pick)
                       \/ /\ row # NoRow
                          /\ ~row.is_locked
                          /\ model_picks'[k] = UpdateRow(row, pick)]_vars

\* a save_pick was refused because the stored pick is locked
C3_Witness ==
    /\ ret.op = "save_pick"
    /\ ret.value = FALSE
    /\ \E k \in Keys : model_picks[k] # NoRow /\ model_picks[k].is_locked

(***************************************************************************)
(* The bet selector (best_bets.py): scoring and the top-5 shortlist.       *)
(***************************************************************************)
\* config.MAX_ODDS, the default of BestBetsSelector(max_odds)
MAX_ODDS == -125
\* select_best_bets keeps sorted_bets[:5]
TopN == 5
\* config.MIN_CONFIDENCE_FOR_BEST_BETS, 0.35 in units of 1e-3
MIN_CONFIDENCE_FOR_BEST_BETS == 350

\* a bet dictionary without the 'score' key
NoScore == -1

Abs(x) == IF x < 0 THEN -x ELSE x

\* american_odds_to_probability, as the fraction num / den
american_odds_to_probability(odds) ==
    IF odds < 0
    THEN [num |-> Abs(odds), den |-> Abs(odds) + 100]
    ELSE [num |-> 100, den |-> odds + 100]

\* calculate_bet_score with the confidence term subtracted instead of added
calculate_bet_score_minus_confidence(predicted_prob, odds, confidence) ==
    LET implied_prob == american_odds_to_probability(odds)
        sum == 6 * predicted_prob - 400 * confidence
        tenths == 11 * implied_prob.den - 2 * implied_prob.num
        q == tenths \div implied_prob.den
        r == tenths % implied_prob.den
    IN (sum * q + (sum * r) \div implied_prob.den + 500) \div 1000

\* calculate_bet_score: predicted_prob in 1e-5, confidence in 1e-3, result in 1e-4.
\*   sum = base_score + confidence_score, in 1e-6
\*   odds_factor = 1 - (num/den - 0.5) * 0.2 = (11 * den - 2 * num) / (10 * den),
\*     taken as q + r / den tenths so that no product leaves 32 bits
\*   round(score, 4): sum * odds_factor, in 1e-7, rounded to the nearest 1e-4
calculate_bet_score(predicted_prob, odds, confidence) ==
    LET implied_prob == american_odds_to_probability(odds)
        sum == 6 * predicted_prob + 400 * confidence
        tenths == 11 * implied_prob.den - 2 * implied_prob.num
        q == tenths \div implied_prob.den
        r == tenths % implied_prob.den
    IN (sum * q + (sum * r) \div implied_prob.den + 500) \div 1000

\* meets_odds_criteria with 'or better' read as 'at least as negative'
meets_odds_criteria_more_negative(odds, max_odds) ==
    IF odds >= 0 THEN TRUE ELSE odds <= max_odds

\* meets_odds_criteria, with self.max_odds as max_odds
meets_odds_criteria(odds, max_odds) ==
    IF odds >= 0 THEN TRUE ELSE odds >= max_odds

\* how many elements of a list sorted by descending score come before x when
\* x is put behind the elements that score the same
PlaceBehindTies(acc, x) ==
    Cardinality({i \in 1..Len(acc) : acc[i].score >= x.score})

\* the same, with x put in front of the elements that score the same
PlaceBeforeTies(acc, x) ==
    Cardinality({i \in 1..Len(acc) : acc[i].score > x.score})

RECURSIVE SortedInto(_, _, _)
\* the elements bets[i..] inserted one by one into the sorted list acc
SortedInto(acc, bets, i) ==
    IF i > Len(bets) THEN acc
    ELSE LET n == PlaceBehindTies(acc, bets[i])
         IN SortedInto(SubSeq(acc, 1, n) \o <<bets[i]>> \o SubSeq(acc, n + 1, Len(acc)),
                       bets, i + 1)

RECURSIVE SortedIntoUnstable(_, _, _)
\* a sort that reverses the input order of equal scores
SortedIntoUnstable(acc, bets, i) ==
    IF i > Len(bets) THEN acc
    ELSE LET n == PlaceBeforeTies(acc, bets[i])
         IN SortedIntoUnstable(
                SubSeq(acc, 1, n) \o <<bets[i]>> \o SubSeq(acc, n + 1, Len(acc)),
                bets, i + 1)

\* sorted(bets, key=score, reverse=True) done by a sort that is not stable
sorted_by_score_unstable(bets) == SortedIntoUnstable(<<>>, bets, 1)

\* sorted(bets, key=lambda x: x['score'], reverse=True): Python's sort is stable,
\* also with reverse=True
sorted_by_score(bets) == SortedInto(<<>>, bets, 1)

\* the bet with its 'score' key set, as the loop of select_best_bets sets it
Scored(bet) ==
    [bet EXCEPT !.score = calculate_bet_score(bet.predicted_prob, bet.odds,
                                              bet.confidence)]

FirstN(bets, n) == SubSeq(bets, 1, IF Len(bets) < n THEN Len(bets) ELSE n)

\* select_best_bets without the odds filter
select_best_bets_unfiltered(bets, max_odds) ==
    LET scored == [i \in 1..Len(bets) |-> Scored(bets[i])]
    IN [all_bets |-> scored, best |-> FirstN(sorted_by_score(scored), TopN)]

\* BestBetsSelector.select_best_bets: the input list afterwards (the eligible
\* bets are scored in place) and the list returned
select_best_bets(bets, max_odds) ==
    LET scored == [i \in 1..Len(bets) |->
                      IF meets_odds_criteria(bets[i].odds, max_odds)
                      THEN Scored(bets[i]) ELSE bets[i]]
        eligible_bets == SelectSeq(scored,
                             LAMBDA b : meets_odds_criteria(b.odds, max_odds))
    IN [all_bets |-> scored, best |-> FirstN(sorted_by_score(eligible_bets), TopN)]

\* the prices, value ratings and confidences of the bets main() collects:
\*   a spread bet at -110 with a 5 point edge,
\*   a total bet at -110 with an 18 point edge and the lowest confidence
\*     predict_total gives (0.35 * 0.87, rounded),
\*   a spread bet at -150, too expensive for the shortlist,
\*   a spread bet at +100 with no edge
BetKinds ==
    { [odds |-> -110, predicted_prob |-> 57500, confidence |-> 525],
      [odds |-> -110, predicted_prob |-> 63800, confidence |-> 304],
      [odds |-> -150, predicted_prob |-> 70000, confidence |-> 600],
      [odds |-> 100, predicted_prob |-> 50000, confidence |-> 400] }

\* all_bets.extend(...) in main(): the bet of the next game joins the list
AddBet(kind) ==
    /\ pc = "collect"
    /\ Len(all_bets) < MaxBets
    /\ all_bets' = Append(all_bets,
                      [game_id |-> Len(all_bets) + 1, odds |-> kind.odds,
                       predicted_prob |-> kind.predicted_prob,
                       confidence |-> kind.confidence, score |-> NoScore])
    /\ UNCHANGED <<best_bets, pc, dbVars, call>>

\* best_bets = selector.select_best_bets(bets_for_selection)
SelectBestBets ==
    /\ pc = "collect"
    /\ LET r == select_best_bets(all_bets, MAX_ODDS) IN
        /\ all_bets' = r.all_bets
        /\ best_bets' = r.best
    /\ pc' = "selected"
    /\ UNCHANGED <<dbVars, call>>

NextSelect ==
    \/ \E kind \in BetKinds : AddBet(kind)
    \/ SelectBestBets

SpecSelect == Init /\ [][NextSelect]_vars

Range(seq) == {seq[i] : i \in 1..Len(seq)}

(***************************************************************************)
(* C4: select_best_bets returns at most 5 bets, each one a bet of the      *)
(* input list that meets the odds criteria.                                *)
(***************************************************************************)
C4_AtMostTopNEligible ==
    pc = "selected" =>
        /\ Len(best_bets) <= TopN
        /\ \A i \in 1..Len(best_bets) :
              /\ best_bets[i] \in Range(all_bets)
              /\ meets_odds_criteria(best_bets[i].odds, MAX_ODDS)

\* more than 5 eligible bets and a bet at -150 went in, 5 came out
C4_Witness ==
    /\ pc = "selected"
    /\ Len(best_bets) = TopN
    /\ Cardinality({i \in 1..Len(all_bets) :
                       meets_odds_criteria(all_bets[i].odds, MAX_ODDS)}) > TopN
    /\ \E i \in 1..Len(all_bets) : ~meets_odds_criteria(all_bets[i].odds, MAX_ODDS)

(***************************************************************************)
(* C5: the list select_best_bets returns is in descending order of score,  *)
(* and bets of equal score keep the order they had in the input list.      *)
(***************************************************************************)
C5_SortedDescendingStable ==
    pc = "selected" =>
        \A i, j \in 1..Len(best_bets) :
            i < j =>
                /\ best_bets[i].score >= best_bets[j].score
                /\ best_bets[i].score = best_bets[j].score =>
                      best_bets[i].game_id < best_bets[j].game_id

\* the shortlist holds a tie and a strict descent, fed in ascending order
C5_Witness ==
    /\ pc = "selected"
    /\ \E i, j \in 1..Len(best_bets) :
          i < j /\ best_bets[i].score = best_bets[j].score
    /\ \E i, j \in 1..Len(best_bets) :
          /\ i < j
          /\ best_bets[i].score > best_bets[j].score
          /\ best_bets[i].game_id > best_bets[j].game_id

(***************************************************************************)
(* C6: select_best_bets never returns a bet whose confidence is below      *)
(* MIN_CONFIDENCE_FOR_BEST_BETS.  The code applies no such filter.         *)
(***************************************************************************)
C6_ShortlistMeetsMinConfidence ==
    pc = "selected" =>
        \A i \in 1..Len(best_bets) :
            best_bets[i].confidence >= MIN_CONFIDENCE_FOR_BEST_BETS

(***************************************************************************)
(* The value-rating curves (best_bets.py).  An edge is in tenths of a      *)
(* point, a rating in 1e-5: 0.015 per point is 150 per tenth.              *)
(***************************************************************************)
Min(a, b) == IF a < b THEN a ELSE b
Max(a, b) == IF a > b THEN a ELSE b

\* additional if edge > 0 else -additional
Signed(edge, additional) == IF edge > 0 THEN additional ELSE -additional

\* _spread_to_probability without its final max(0.50, min(0.70, prob))
spread_to_probability_unclamped(edge) ==
    IF Abs(edge) < 5 THEN 50000
    ELSE IF Abs(edge) <= 50 THEN 50000 + edge * 150
    ELSE IF Abs(edge) <= 100
         THEN 57500 + Signed(edge, (Abs(edge) - 50) * 120)
    ELSE IF Abs(edge) <= 200
         THEN 63500 + Signed(edge, (Abs(edge) - 100) * 60)
    ELSE 69500 + Signed(edge, Min((Abs(edge) - 200) * 10, 500))

\* _spread_to_probability with the base of the last band one term short
spread_to_probability_short_base(edge) ==
    LET prob ==
            IF Abs(edge) <= 50 THEN 50000 + edge * 150
            ELSE IF Abs(edge) <= 100
                 THEN 57500 + Signed(edge, (Abs(edge) - 50) * 120)
            ELSE IF Abs(edge) <= 200
                 THEN 63500 + Signed(edge, (Abs(edge) - 100) * 60)
            ELSE 63500 + Signed(edge, Min((Abs(edge) - 200) * 10, 500))
    IN IF Abs(edge) < 5 THEN 50000 ELSE Max(50000, Min(70000, prob))

\* BestBetsSelector._spread_to_probability
spread_to_probability(edge) ==
    LET prob ==
            IF Abs(edge) <= 50 THEN 50000 + edge * 150
            ELSE IF Abs(edge) <= 100
                 THEN 57500 + Signed(edge, (Abs(edge) - 50) * 120)
            ELSE IF Abs(edge) <= 200
                 THEN 63500 + Signed(edge, (Abs(edge) - 100) * 60)
            ELSE 69500 + Signed(edge, Min((Abs(edge) - 200) * 10, 500))
    IN IF Abs(edge) < 5 THEN 50000 ELSE Max(50000, Min(70000, prob))

\* _total_to_probability without its final max(0.50, min(0.65, prob))
total_to_probability_unclamped(edge) ==
    LET abs_edge == Abs(edge) IN
    IF abs_edge < 5 THEN 50000
    ELSE IF abs_edge <= 60 THEN 50000 + edge * 120
    ELSE IF abs_edge <= 120 THEN 57200 + Signed(edge, (abs_edge - 60) * 80)
    ELSE IF abs_edge <= 200 THEN 62000 + Signed(edge, (abs_edge - 120) * 30)
    ELSE 64400 + Signed(edge, Min((abs_edge - 200) * 5, 600))

\* BestBetsSelector._total_to_probability
total_to_probability(edge) ==
    LET abs_edge == Abs(edge)
        prob ==
            IF abs_edge <= 60 THEN 50000 + edge * 120
            ELSE IF abs_edge <= 120 THEN 57200 + Signed(edge, (abs_edge - 60) * 80)
            ELSE IF abs_edge <= 200 THEN 62000 + Signed(edge, (abs_edge - 120) * 30)
            ELSE 64400 + Signed(edge, Min((abs_edge - 200) * 5, 600))
    IN IF abs_edge < 5 THEN 50000 ELSE Max(50000, Min(65000, prob))

Edges == (-MaxEdge)..MaxEdge

\* the curve is applied to two edges, the smaller one first
SpreadToProbability ==
    /\ call = NoFn
    /\ \E e1, e2 \in Edges :
          /\ e1 <= e2
          /\ call' = [fn |-> "_spread_to_probability", args |-> <<e1, e2>>,
                      out |-> <<spread_to_probability(e1),
                                spread_to_probability(e2)>>]
    /\ UNCHANGED <<dbVars, selVars>>

TotalToProbability ==
    /\ call = NoFn
    /\ \E e1, e2 \in Edges :
          /\ e1 <= e2
          /\ call' = [fn |-> "_total_to_probability", args |-> <<e1, e2>>,
                      out |-> <<total_to_probability(e1),
                                total_to_probability(e2)>>]
    /\ UNCHANGED <<dbVars, selVars>>

NextCurves ==
    \/ SpreadToProbability
    \/ TotalToProbability

SpecCurves == Init /\ [][NextCurves]_vars

(***************************************************************************)
(* C7: for every edge, _spread_to_probability(edge) lies in [0.50, 0.70],  *)
(* and it is exactly 0.50 whenever |edge| < 0.5.                           *)
(***************************************************************************)
C7_SpreadRatingBounded ==
    call.fn = "_spread_to_probability" =>
        \A i \in 1..2 :
            /\ 50000 <= call.out[i]
            /\ call.out[i] <= 70000
            /\ Abs(call.args[i]) < 5 => call.out[i] = 50000

\* an edge beyond -20 points and a non-zero edge below half a point
C7_Witness ==
    /\ call.fn = "_spread_to_probability"
    /\ call.args[1] < -200
    /\ call.args[2] # 0
    /\ Abs(call.args[2]) < 5

(***************************************************************************)
(* C8: _spread_to_probability is non-decreasing over positive edges:       *)
(* 0 < e1 <= e2 implies rating(e1) <= rating(e2).                          *)
(***************************************************************************)
C8_SpreadRatingRisesForPositiveEdge ==
    (call.fn = "_spread_to_probability" /\ 0 < call.args[1]) =>
        call.out[1] <= call.out[2]

\* the two edges lie in the first and in the last band
C8_Witness ==
    /\ call.fn = "_spread_to_probability"
    /\ 0 < call.args[1]
    /\ call.args[1] < 5
    /\ call.args[2] > 250
    /\ call.out[1] < call.out[2]

(***************************************************************************)
(* C9: _spread_to_probability is non-increasing over negative edges:       *)
(* e1 <= e2 < 0 implies rating(e1) >= rating(e2).  The code restarts each  *)
(* band of a negative edge at the band's positive base, so the rating      *)
(* falls within a band as the edge grows more negative.                    *)
(***************************************************************************)
C9_SpreadRatingFallsForNegativeEdge ==
    (call.fn = "_spread_to_probability" /\ call.args[2] < 0) =>
        call.out[1] >= call.out[2]

(***************************************************************************)
(* C10: for every edge, _total_to_probability(edge) lies in [0.50, 0.65].  *)
(***************************************************************************)
C10_TotalRatingBounded ==
    call.fn = "_total_to_probability" =>
        \A i \in 1..2 : 50000 <= call.out[i] /\ call.out[i] <= 65000

\* an edge beyond -20 points and one where the curve reaches its cap
C10_Witness ==
    /\ call.fn = "_total_to_probability"
    /\ call.args[1] < -200
    /\ call.args[2] >= 320
    /\ call.out[2] = 65000

(***************************************************************************)
(* The prediction engine (model.py): recent form and the confidence of a   *)
(* predicted spread and of a predicted total.  Consistencies and returned  *)
(* confidences are in 1e-3; a confidence under computation is in 1e-8.     *)
(***************************************************************************)
\* get_recent_games(team_id, limit=10)
RECENT_GAMES_LIMIT == 10
\* league_avg_total = 142, in tenths of a point
LeagueAvgTotal == 1420

\* a recent game the team won by 22 at home
WonAtHome(team_id) ==
    [home_score |-> 80, away_score |-> 58, home_team_id |-> team_id]

\* a recent game the team lost by 20 on the road
LostAway(team_id) ==
    [home_score |-> 80, away_score |-> 60, home_team_id |-> "opponent"]

\* a recent game the team won by 2 at home
WonClose(team_id) ==
    [home_score |-> 70, away_score |-> 68, home_team_id |-> team_id]

\* a list of recent games: games won big, then close ones, then lost ones
Recent(team_id, won, close, lost) ==
    [i \in 1..(won + close + lost) |->
        IF i <= won THEN WonAtHome(team_id)
        ELSE IF i <= won + close THEN WonClose(team_id)
        ELSE LostAway(team_id)]

\* the numbers of games of two kinds in a list of at most RECENT_GAMES_LIMIT games
GameCounts ==
    {q \in (0..RECENT_GAMES_LIMIT) \X (0..RECENT_GAMES_LIMIT) :
        q[1] + q[2] <= RECENT_GAMES_LIMIT}

\* the lists get_recent_games returns for the home team: none to
\* RECENT_GAMES_LIMIT games, big wins and losses
HomeRecentLists == {Recent("home", p[1], 0, p[2]) : p \in GameCounts}

\* the lists get_recent_games returns for the away team: none to
\* RECENT_GAMES_LIMIT games, close wins and losses
AwayRecentLists == {Recent("away", 0, p[1], p[2]) : p \in GameCounts}

\* margin = team_score - opp_score, from the team's side of the game
Margin(game, team_id) ==
    IF game.home_team_id = team_id
    THEN game.home_score - game.away_score
    ELSE game.away_score - game.home_score

RECURSIVE SumFrom(_, _)
SumFrom(seq, i) == IF i > Len(seq) THEN 0 ELSE seq[i] + SumFrom(seq, i + 1)

RECURSIVE SqrtBetween(_, _, _)
\* the largest r with r * r <= x, given lo * lo <= x < hi * hi
SqrtBetween(x, lo, hi) ==
    IF hi - lo <= 1 THEN lo
    ELSE LET mid == (lo + hi) \div 2
         IN IF mid * mid <= x THEN SqrtBetween(x, mid, hi)
                              ELSE SqrtBetween(x, lo, mid)

\* floor(sqrt(x) * 10^4) for 0 <= x <= 214748: the root r of x * 10^4, then the
\* largest two further digits d with (100 r + d)^2 <= x * 10^8
SqrtE4(x) ==
    LET r == SqrtBetween(x * 10000, 0, 46341)
        rem == x * 10000 - r * r
        d == CHOOSE k \in 0..99 :
                 /\ 200 * r * k + k * k <= 10000 * rem
                 /\ (k = 99 \/ 200 * r * (k + 1) + (k + 1) * (k + 1) > 10000 * rem)
    IN 100 * r + d

\* sample_size_factor of analyze_recent_form, in 1e-2
SampleSizeFactor(num_games) ==
    IF num_games <= 2 THEN 30
    ELSE IF num_games <= 5 THEN 40 + (num_games - 2) * 5
    ELSE IF num_games <= 10 THEN 55 + (num_games - 5) * 4
    ELSE Min(75 + (num_games - 10) * 2, 90)

\* variance_factor of analyze_recent_form, in 1e-6.  np.std(margins) is
\* sqrt(x) / n with x = n * sum(m^2) - sum(m)^2; t is sqrt(x) in 1e-4, so that
\* margin_std / 20 is 5 t / n in 1e-6
VarianceFactor(margins) ==
    LET n == Len(margins)
        x == n * SumFrom([i \in 1..n |-> margins[i] * margins[i]], 1)
                - SumFrom(margins, 1) * SumFrom(margins, 1)
        t == SqrtE4(x)
    IN IF n > 1
       THEN IF x < 64 * n * n THEN 750000 - (5 * t) \div n
            ELSE IF x < 144 * n * n THEN 900000 - (5 * t) \div (2 * n)
            ELSE IF x < 324 * n * n THEN 750000 - (5 * t) \div (3 * n)
            ELSE Max(300000, 630000 - t \div n)
       ELSE 400000

\* quality_factor of analyze_recent_form, in 1e-2
QualityFactor(margins) ==
    LET ms == Range(margins)
        max_margin == CHOOSE m \in ms : \A o \in ms : o <= m
        min_margin == CHOOSE m \in ms : \A o \in ms : o >= m
        swing == max_margin - min_margin
    IN IF Len(margins) >= 3
       THEN IF swing > 40 THEN Max(30, 100 - (swing - 40)) ELSE 80
       ELSE 50

\* round(x, 3) of a float x that the fixed-point value approximates: x is
\* known to lie in [value - below, value + above] units, 10^digits units to the
\* 1e-3.  A value that far from a rounding tie rounds one way; at a tie the
\* binary float decides, so both neighbours are possible results.
RoundTo3(value, digits, below, above) ==
    {(value - below + 5 * 10^(digits - 1) - 1) \div 10^digits,
     (value + above + 5 * 10^(digits - 1)) \div 10^digits}

\* analyze_recent_form: the possible 'consistency' of the result, in 1e-3
analyze_recent_form(recent_games, team_id) ==
    IF recent_games = <<>> THEN {300}
    ELSE LET margins == [i \in 1..Len(recent_games) |->
                            Margin(recent_games[i], team_id)]
             consistency ==
                 5000 * SampleSizeFactor(Len(margins))
                     + (3 * VarianceFactor(margins)) \div 10
                     + 2000 * QualityFactor(margins)
         IN \* VarianceFactor cuts the square root off after 1e-4
            RoundTo3(Max(250000, Min(850000, consistency)), 3, 2, 0)

\* confidence *= percent / 100, confidence in 1e-8
Times(confidence, percent) ==
    (confidence \div 100) * percent + ((confidence % 100) * percent) \div 100

\* the possible confidences of predict_total without the final max(0.35, ...)
total_confidence_no_floor(home_consistency, away_consistency, num_games, predicted_total, pace_diff) ==
    LET base_confidence == (home_consistency + away_consistency) * 50000
        c0 == Max(35000000, base_confidence)
        c1 == IF num_games < 4 THEN Times(c0, 88)
              ELSE IF num_games < 8 THEN Times(c0, 94) ELSE c0
        total_deviation == Abs(predicted_total - LeagueAvgTotal)
        c2 == IF total_deviation > 300 THEN Times(c1, 80)
              ELSE IF total_deviation > 200 THEN Times(c1, 88)
              ELSE IF total_deviation > 150 THEN Times(c1, 94) ELSE c1
        c3 == IF pace_diff > 150 THEN Times(c2, 90) ELSE c2
        c4 == Times(c3, 92)
    IN RoundTo3(Min(75000000, c4), 5, 0, 4)

\* predict_spread, lines 528-549: the possible confidences, in 1e-3, of a
\* predicted spread in 1e-4 of a point
spread_confidence(home_consistency, away_consistency, num_games, predicted_spread) ==
    LET base_confidence == (home_consistency + away_consistency) * 50000
        c0 == Max(40000000, base_confidence)
        c1 == IF num_games < 4 THEN Times(c0, 90)
              ELSE IF num_games < 8 THEN Times(c0, 95) ELSE c0
        c2 == IF Abs(predicted_spread) > 300000 THEN Times(c1, 85)
              ELSE IF Abs(predicted_spread) > 200000 THEN Times(c1, 92)
              ELSE IF Abs(predicted_spread) > 150000 THEN Times(c1, 96) ELSE c1
    IN RoundTo3(Min(c2, 85000000), 5, 0, 0)

\* predict_total, lines 660-691: the possible confidences, in 1e-3
total_confidence(home_consistency, away_consistency, num_games, predicted_total, pace_diff) ==
    LET base_confidence == (home_consistency + away_consistency) * 50000
        c0 == Max(35000000, base_confidence)
        c1 == IF num_games < 4 THEN Times(c0, 88)
              ELSE IF num_games < 8 THEN Times(c0, 94) ELSE c0
        total_deviation == Abs(predicted_total - LeagueAvgTotal)
        c2 == IF total_deviation > 300 THEN Times(c1, 80)
              ELSE IF total_deviation > 200 THEN Times(c1, 88)
              ELSE IF total_deviation > 150 THEN Times(c1, 94) ELSE c1
        c3 == IF pace_diff > 150 THEN Times(c2, 90) ELSE c2
        c4 == Times(c3, 92)
    IN \* each of the four products is cut off after 1e-8
       RoundTo3(Max(35000000, Min(75000000, c4)), 5, 0, 4)

\* validate_pace: a pace outside [55, 85] is replaced by 70
validate_pace(pace) ==
    IF pace <= 0 \/ pace < 550 \/ pace > 850 THEN 700 ELSE pace

\* round(x, 1) of a spread in 1e-4 of a point, in tenths: as RoundTo3
RoundTo1(value, digits, below, above) == RoundTo3(value, digits, below, above)

\* the possible results of predict_spread from the sanity bounds on (lines
\* 525-549): raw_spread, in 1e-4 of a point, is the spread the projected
\* scores and the market blend give; the result is <<spread in tenths,
\* confidence in 1e-3>>
predict_spread(home_recent, away_recent, raw_spread) ==
    LET home_forms == analyze_recent_form(home_recent, "home")
        away_forms == analyze_recent_form(away_recent, "away")
        num_games == Len(home_recent) + Len(away_recent)
        predicted_spread == Max(-500000, Min(500000, raw_spread))
    IN {<<spread, confidence>> :
           spread \in RoundTo1(predicted_spread, 3, 0, 0),
           confidence \in UNION {spread_confidence(home_form, away_form,
                                                   num_games, predicted_spread) :
                                    home_form \in home_forms,
                                    away_form \in away_forms}}

\* the possible results of predict_total from the recent games on: raw_total is the total the
\* projected scores give before the sanity bounds
predict_total(home_recent, away_recent, home_pace_stat, away_pace_stat, raw_total) ==
    LET home_forms == analyze_recent_form(home_recent, "home")
        away_forms == analyze_recent_form(away_recent, "away")
        num_games == Len(home_recent) + Len(away_recent)
        home_pace == validate_pace(home_pace_stat)
        away_pace == validate_pace(away_pace_stat)
        predicted_total == Max(1100, Min(2000, raw_total))
    IN {<<predicted_total, confidence>> :
           confidence \in UNION {total_confidence(home_form, away_form, num_games,
                                                  predicted_total,
                                                  Abs(home_pace - away_pace)) :
                                    home_form \in home_forms,
                                    away_form \in away_forms}}

\* spreads before the sanity bounds: each penalty band, and beyond the bounds
RawSpreads == {-600000, -300001, 0, 150001, 200001, 300001}

\* totals before the sanity bounds: each penalty band, and beyond the bounds
RawTotals == {1000, 1420, 1571, 1621, 2100}

\* the paces of the two teams' stats: equal, far apart, and missing or absurd
PacePairs == {<<700, 700>>, <<560, 840>>, <<0, 900>>}

PredictSpread ==
    /\ call = NoFn
    /\ \E home_recent \in HomeRecentLists, away_recent \in AwayRecentLists,
          raw_spread \in RawSpreads :
          \E result \in predict_spread(home_recent, away_recent, raw_spread) :
             call' = [fn |-> "predict_spread",
                      args |-> <<home_recent, away_recent, raw_spread>>,
                      out |-> result]
    /\ UNCHANGED <<dbVars, selVars>>

PredictTotal ==
    /\ call = NoFn
    /\ \E home_recent \in HomeRecentLists, away_recent \in AwayRecentLists,
          paces \in PacePairs, raw_total \in RawTotals :
          \E result \in predict_total(home_recent, away_recent,
                                      paces[1], paces[2], raw_total) :
             call' = [fn |-> "predict_total",
                      args |-> <<home_recent, away_recent, paces[1], paces[2], raw_total>>,
                      out |-> result]
    /\ UNCHANGED <<dbVars, selVars>>

NextPredict == PredictSpread \/ PredictTotal

SpecPredict == Init /\ [][NextPredict]_vars

\* C1: the confidence predict_spread returns is within [0.40, 0.85] whatever
\* the recent-game lists and the predicted spread.
C1_SpreadConfidenceBounded ==
    call.fn = "predict_spread" => (call.out[2] >= 400 /\ call.out[2] <= 850)

\* C2: the confidence predict_total returns is within [0.35, 0.75] whatever
\* the recent-game lists, the pace differential and the predicted total.
C2_TotalConfidenceBounded ==
    call.fn = "predict_total" => (call.out[2] >= 350 /\ call.out[2] <= 750)

\* predict_total has returned 0.35 for two teams without recent games, a total
\* at the upper sanity bound and paces 28 apart: the penalties alone give less
C2_Witness ==
    /\ call.fn = "predict_total"
    /\ call.args[1] = <<>> /\ call.args[2] = <<>>
    /\ call.out[1] = 2000
    /\ call.out[2] = 350
    /\ \A unfloored \in total_confidence_no_floor(
                            300, 300, 0, call.out[1],
                            Abs(validate_pace(call.args[3])
                                   - validate_pace(call.args[4]))) :
          unfloored < 350

(***************************************************************************)
(* C11: _total_to_probability is non-decreasing over positive edges and    *)
(* non-increasing over negative ones: 0 < e1 <= e2 implies rating(e1) <=   *)
(* rating(e2), and e1 <= e2 < 0 implies rating(e1) >= rating(e2).  As in   *)
(* the spread curve, a negative edge beyond 6 points restarts at the       *)
(* band's positive base; create_bet_from_prediction passes |edge| only.    *)
(***************************************************************************)
C11_TotalRatingMonotone ==
    call.fn = "_total_to_probability" =>
        /\ 0 < call.args[1] => call.out[1] <= call.out[2]
        /\ call.args[2] < 0 => call.out[1] >= call.out[2]

(***************************************************************************)
(* calculate_bet_score applied to two bets at the same odds that differ in *)
(* the value rating or in the confidence.                                  *)
(***************************************************************************)
\* value ratings the two curves return, among them neighbours in the flat last bands
ScoreRatings ==
    {spread_to_probability(e) : e \in {0, 5, 50, 100, 200, 201, 202, 250}}
        \cup {total_to_probability(e) : e \in {60, 120, 200, 201, 202, 320}}

\* confidences _adjust_confidence_for_edge returns, among them two neighbours
ScoreConfidences == {250, 350, 351, 525, 880}

\* prices on both sides of even money
ScoreOdds == {-150, -125, -110, 100, 150}

\* the score of two bets, the second one no lower in rating and confidence
\* and higher in exactly one of them
CalculateBetScore ==
    /\ call = NoFn
    /\ \E odds \in ScoreOdds, p1, p2 \in ScoreRatings, c1, c2 \in ScoreConfidences :
          /\ \/ p1 < p2 /\ c1 = c2
             \/ p1 = p2 /\ c1 < c2
          /\ call' = [fn |-> "calculate_bet_score",
                      args |-> <<[predicted_prob |-> p1, confidence |-> c1],
                                 [predicted_prob |-> p2, confidence |-> c2], odds>>,
                      out |-> <<calculate_bet_score(p1, odds, c1),
                                calculate_bet_score(p2, odds, c2)>>]
    /\ UNCHANGED <<dbVars, selVars>>

NextScore == CalculateBetScore

SpecScore == Init /\ [][NextScore]_vars

(***************************************************************************)
(* C12: with the odds fixed, calculate_bet_score never falls when the      *)
(* value rating or the confidence rises, and it rises strictly with a      *)
(* confidence that rises by 0.001 or more.                                 *)
(***************************************************************************)
C12_ScoreNonDecreasing ==
    call.fn = "calculate_bet_score" =>
        /\ call.out[1] <= call.out[2]
        /\ call.args[1].confidence < call.args[2].confidence =>
               call.out[1] < call.out[2]

\* a higher rating with a higher score, at a price below even money
C12_Witness ==
    /\ call.fn = "calculate_bet_score"
    /\ call.args[3] < 0
    /\ call.args[1].predicted_prob < call.args[2].predicted_prob
    /\ call.out[1] < call.out[2]

\* C12 as stated: raising the value rating or the confidence always gives a
\* strictly larger score.  round(score, 4) makes two ratings 0.00005 apart
\* score the same.
C12_ScoreStrictlyIncreasing ==
    call.fn = "calculate_bet_score" => call.out[1] < call.out[2]

(***************************************************************************)
(* meets_odds_criteria applied to one price.                               *)
(***************************************************************************)
\* the limit a selector is built with: config.MAX_ODDS, a looser and a tighter one
MaxOddsChoices == {-150, MAX_ODDS, -110}

MeetsOddsCriteria ==
    /\ call = NoFn
    /\ \E odds \in (-MaxOdds)..MaxOdds, max_odds \in MaxOddsChoices :
          call' = [fn |-> "meets_odds_criteria", args |-> <<odds, max_odds>>,
                   out |-> <<meets_odds_criteria(odds, max_odds)>>]
    /\ UNCHANGED <<dbVars, selVars>>

NextOdds == MeetsOddsCriteria

SpecOdds == Init /\ [][NextOdds]_vars

EdgeAdjustment(edge, bet_type) ==
    LET abs_edge == Abs(edge)
    IN IF bet_type = "spread"
       THEN IF abs_edge < 20 THEN 95
            ELSE IF abs_edge < 50 THEN 100
            ELSE IF abs_edge < 100 THEN 105
            ELSE IF abs_edge < 150 THEN 100
            ELSE IF abs_edge < 200 THEN 92
            ELSE 85
       ELSE IF abs_edge < 30 THEN 92
            ELSE IF abs_edge < 70 THEN 100
            ELSE IF abs_edge < 120 THEN 103
            ELSE IF abs_edge < 180 THEN 94
            ELSE 87

\* _adjust_confidence_for_edge without max(0.25, min(0.88, adjusted))
adjust_confidence_for_edge_unclamped(base_confidence, edge, bet_type) ==
    RoundTo3(base_confidence * EdgeAdjustment(edge, bet_type), 2, 0, 0)

\* BestBetsSelector._adjust_confidence_for_edge: the possible results, in 1e-3
adjust_confidence_for_edge(base_confidence, edge, bet_type) ==
    LET adjusted == base_confidence * EdgeAdjustment(edge, bet_type)
    IN RoundTo3(Max(25000, Min(88000, adjusted)), 2, 0, 0)

\* edges on both sides of every band boundary of both bet types
BandEdges ==
    {0, 19, 20, 29, 30, 49, 50, 69, 70, 99, 100, 119, 120, 149, 150, 179, 180,
     199, 200, MaxEdge}

AdjustConfidenceForEdge ==
    /\ call = NoFn
    /\ \E base_confidence \in 0..MaxBaseConfidence,
          e \in BandEdges, sign \in {-1, 1}, bet_type \in BetTypes :
          \E adjusted \in adjust_confidence_for_edge(base_confidence, sign * e,
                                                     bet_type) :
             call' = [fn |-> "_adjust_confidence_for_edge",
                      args |-> <<base_confidence, sign * e, bet_type>>,
                      out |-> <<adjusted>>]
    /\ UNCHANGED <<dbVars, selVars>>

NextAdjust == AdjustConfidenceForEdge

SpecAdjust == Init /\ [][NextAdjust]_vars

(***************************************************************************)
(* C19: _adjust_confidence_for_edge returns a value in [0.25, 0.88], and   *)
(* that value is the base confidence times the multiplier of the band of   *)
(* |edge| (spread: <2 0.95, <5 1.00, <10 1.05, <15 1.00, <20 0.92, else    *)
(* 0.85; total: <3 0.92, <7 1.00, <12 1.03, <18 0.94, else 0.87), clamped  *)
(* to that range and rounded to three decimals.                            *)
(***************************************************************************)
C19_AdjustedConfidence ==
    call.fn = "_adjust_confidence_for_edge" =>
        LET base == call.args[1]
            a == Abs(call.args[2])
            multiplier ==
                IF call.args[3] = "spread"
                THEN CASE a < 20 -> 95 [] a >= 20 /\ a < 50 -> 100
                       [] a >= 50 /\ a < 100 -> 105 [] a >= 100 /\ a < 150 -> 100
                       [] a >= 150 /\ a < 200 -> 92 [] a >= 200 -> 85
                ELSE CASE a < 30 -> 92 [] a >= 30 /\ a < 70 -> 100
                       [] a >= 70 /\ a < 120 -> 103 [] a >= 120 /\ a < 180 -> 94
                       [] a >= 180 -> 87
            product == base * multiplier
            clamped == IF product < 25000 THEN 25000
                       ELSE IF product > 88000 THEN 88000 ELSE product
        IN /\ call.out[1] >= 250
           /\ call.out[1] <= 880
           /\ Abs(100 * call.out[1] - clamped) <= 50

\* a spread bet with a 7 point edge: 0.525 boosted by 1.05 to 0.551
C19_Witness ==
    /\ call.fn = "_adjust_confidence_for_edge"
    /\ call.args = <<525, 70, "spread">>
    /\ call.out[1] = 551

(***************************************************************************)
(* The bet selector (best_bets.py): create_bet_from_prediction, and the    *)
(* readers of its pick strings (model_picks_db.py).  A string is a         *)
(* sequence of one-character strings; predictions and lines are in tenths  *)
(* of a point; a dict is a function on the keys it has.                    *)
(***************************************************************************)
DigitChars == <<"0", "1", "2", "3", "4", "5", "6", "7", "8", "9">>

RECURSIVE NatToStr(_)
\* the decimal digits of a natural number
NatToStr(n) ==
    IF n < 10 THEN <<DigitChars[n + 1]>>
    ELSE NatToStr(n \div 10) \o <<DigitChars[(n % 10) + 1]>>

\* f"{x:+.1f}"
FormatSigned1f(x) ==
    <<IF x < 0 THEN "-" ELSE "+">> \o NatToStr(Abs(x) \div 10) \o <<".">>
        \o NatToStr(Abs(x) % 10)

\* str(x) of a float x
FloatToStr(x) ==
    (IF x < 0 THEN <<"-">> ELSE <<>>) \o NatToStr(Abs(x) \div 10) \o <<".">>
        \o NatToStr(Abs(x) % 10)

RECURSIVE SplitFrom(_, _, _)
\* the tokens of s from position i on, word being the token under way
SplitFrom(s, i, word) ==
    IF i > Len(s) THEN IF word = <<>> THEN <<>> ELSE <<word>>
    ELSE IF s[i] = " "
         THEN IF word = <<>> THEN SplitFrom(s, i + 1, <<>>)
              ELSE <<word>> \o SplitFrom(s, i + 1, <<>>)
    ELSE SplitFrom(s, i + 1, Append(word, s[i]))

\* s.split()
Split(s) == SplitFrom(s, 1, <<>>)

RECURSIVE Join(_)
\* ' '.join(tokens)
Join(tokens) ==
    IF tokens = <<>> THEN <<>>
    ELSE IF Len(tokens) = 1 THEN tokens[1]
    ELSE tokens[1] \o <<" ">> \o Join(Tail(tokens))

\* sub in s
Contains(s, sub) ==
    \E i \in 0..(Len(s) - Len(sub)) : SubSeq(s, i + 1, i + Len(sub)) = sub

IsDigits(s) == \A i \in 1..Len(s) : \E d \in 1..10 : DigitChars[d] = s[i]

RECURSIVE StrToNat(_)
StrToNat(digits) ==
    IF digits = <<>> THEN 0
    ELSE 10 * StrToNat(SubSeq(digits, 1, Len(digits) - 1))
             + (CHOOSE d \in 0..9 : DigitChars[d + 1] = digits[Len(digits)])

\* float(token), in tenths: an optional sign, digits, and optionally a point
\* and one more digit; any other token of these strings is a ValueError
float(token) ==
    LET signed == token # <<>> /\ token[1] \in {"+", "-"}
        body == IF signed THEN Tail(token) ELSE token
        points == {i \in 1..Len(body) : body[i] = "."}
        point == IF points = {} THEN Len(body) + 1
                 ELSE CHOOSE i \in points : \A j \in points : i <= j
        whole == SubSeq(body, 1, point - 1)
        decimals == SubSeq(body, point + 1, Len(body))
        magnitude == 10 * StrToNat(whole)
                        + (IF decimals = <<>> THEN 0 ELSE StrToNat(decimals))
    IN IF whole # <<>> /\ IsDigits(whole) /\ IsDigits(decimals) /\ Len(decimals) <= 1
       THEN [error |-> FALSE,
             value |-> IF signed /\ token[1] = "-" THEN -magnitude ELSE magnitude]
       ELSE [error |-> TRUE, value |-> 0]

EmptyDict == [key \in {} |-> 0]

\* d.get(key, default)
Get(d, key, default) == IF key \in DOMAIN d THEN d[key] ELSE default

\* create_bet_from_prediction, lines 161-197: the side of a spread bet
SpreadPick(game, prediction, odds_data) ==
    LET home_team == Get(game, "home_team", <<"H", "o", "m", "e">>)
        away_team == Get(game, "away_team", <<"A", "w", "a", "y">>)
        market_spread == Get(odds_data, "spread", EmptyDict)
        home_spread == Get(market_spread, "home_spread", 0)
        away_spread == Get(market_spread, "away_spread", 0)
        home_odds == Get(market_spread, "home_odds", -110)
        away_odds == Get(market_spread, "away_odds", -110)
    IN IF prediction > 0
       THEN IF prediction > Abs(home_spread)
            THEN [pick_team |-> home_team, pick_spread |-> home_spread,
                  pick_odds |-> home_odds, edge |-> prediction - home_spread]
            ELSE [pick_team |-> away_team, pick_spread |-> away_spread,
                  pick_odds |-> away_odds, edge |-> away_spread - prediction]
       ELSE IF Abs(prediction) > Abs(away_spread)
            THEN [pick_team |-> away_team, pick_spread |-> away_spread,
                  pick_odds |-> away_odds,
                  edge |-> Abs(prediction) - Abs(away_spread)]
            ELSE [pick_team |-> home_team, pick_spread |-> home_spread,
                  pick_odds |-> home_odds, edge |-> home_spread + Abs(prediction)]

\* the pick of a spread bet with the space left out
SpreadPickStringUnspaced(pick_team, pick_spread) ==
    pick_team \o FormatSigned1f(pick_spread)

\* f"{pick_team} {pick_spread:+.1f}"
SpreadPickString(pick_team, pick_spread) ==
    pick_team \o <<" ">> \o FormatSigned1f(pick_spread)

\* str(total_line) in f"Over {total_line}": the default line is the int 140
TotalLineString(odds_data) ==
    LET market_total == Get(odds_data, "total", EmptyDict)
    IN IF "line" \in DOMAIN market_total THEN FloatToStr(market_total["line"])
       ELSE NatToStr(140)

\* the side of a total bet with Over picked on a tie as well
TotalPickOverOnTie(prediction, odds_data) ==
    LET market_total == Get(odds_data, "total", EmptyDict)
        total_line == Get(market_total, "line", 1400)
        over_odds == Get(market_total, "over_odds", -110)
        under_odds == Get(market_total, "under_odds", -110)
    IN IF prediction >= total_line
       THEN [pick |-> <<"O", "v", "e", "r", " ">> \o TotalLineString(odds_data),
             pick_odds |-> over_odds, edge |-> prediction - total_line]
       ELSE [pick |-> <<"U", "n", "d", "e", "r", " ">> \o TotalLineString(odds_data),
             pick_odds |-> under_odds, edge |-> total_line - prediction]

\* create_bet_from_prediction, lines 222-236: the side of a total bet
TotalPick(prediction, odds_data) ==
    LET market_total == Get(odds_data, "total", EmptyDict)
        total_line == Get(market_total, "line", 1400)
        over_odds == Get(market_total, "over_odds", -110)
        under_odds == Get(market_total, "under_odds", -110)
    IN IF prediction > total_line
       THEN [pick |-> <<"O", "v", "e", "r", " ">> \o TotalLineString(odds_data),
             pick_odds |-> over_odds, edge |-> prediction - total_line]
       ELSE [pick |-> <<"U", "n", "d", "e", "r", " ">> \o TotalLineString(odds_data),
             pick_odds |-> under_odds, edge |-> total_line - prediction]

\* BestBetsSelector.create_bet_from_prediction: the lists it may return (the
\* adjusted confidence of a rounding tie goes either way); game_description
\* and reasoning, texts for display, are left out of a bet
create_bet_from_prediction(game, prediction_type, prediction, confidence, odds_data) ==
    IF prediction_type = "spread"
    THEN LET side == SpreadPick(game, prediction, odds_data)
         IN {<<[game_id |-> Get(game, "id", ""), bet_type |-> "Spread",
                pick |-> SpreadPickString(side.pick_team, side.pick_spread),
                odds |-> side.pick_odds,
                predicted_prob |-> spread_to_probability(side.edge),
                confidence |-> adjusted_confidence]>> :
               adjusted_confidence \in
                   adjust_confidence_for_edge(confidence, side.edge, "spread")}
    ELSE IF prediction_type = "total"
    THEN LET side == TotalPick(prediction, odds_data)
         IN {<<[game_id |-> Get(game, "id", ""), bet_type |-> "Total",
                pick |-> side.pick,
                odds |-> side.pick_odds,
                predicted_prob |-> total_to_probability(side.edge),
                confidence |-> adjusted_confidence]>> :
               adjusted_confidence \in
                   adjust_confidence_for_edge(confidence, side.edge, "total")}
    ELSE {<<>>}

\* _calculate_spread_result, lines 216-218: the team and the line read from a pick
ParseSpreadPick(pick) ==
    LET pick_parts == Split(pick)
    IN IF pick_parts = <<>> THEN [error |-> TRUE]
       ELSE [error |-> float(pick_parts[Len(pick_parts)]).error,
             pick_team |-> Join(SubSeq(pick_parts, 1, Len(pick_parts) - 1)),
             pick_spread |-> float(pick_parts[Len(pick_parts)]).value]

\* _calculate_total_result, lines 234-237: the line and the side read from a pick
ParseTotalPick(pick) ==
    LET pick_parts == Split(pick)
    IN IF pick_parts = <<>> THEN [error |-> TRUE]
       ELSE [error |-> float(pick_parts[Len(pick_parts)]).error,
             line |-> float(pick_parts[Len(pick_parts)]).value,
             over |-> Contains(pick, <<"O", "v", "e", "r">>)]

\* two games, each with a team whose name has a space in it
BetGames ==
    {[id |-> "401", home_team |-> <<"D", "u", "k", "e">>,
      away_team |-> <<"M", "i", "a", "m", "i", " ", "(", "O", "H", ")">>],
     [id |-> "402", home_team |-> <<"S", "t", ".", " ", "J", "o", "h", "n", "'", "s">>,
      away_team |-> <<"U", "N", "C">>]}

\* the prices of the two sides of a market
PricePairs == {<<-110, -110>>, <<-105, -115>>}

\* the spread section of an odds record: home favoured, even, home underdog
SpreadSections ==
    {[home_spread |-> h, away_spread |-> -h, home_odds |-> o[1], away_odds |-> o[2]] :
        h \in {-105, -55, -30, 0, 35, 55, 100}, o \in PricePairs}

\* the total section of an odds record
TotalSections ==
    {[line |-> l, over_odds |-> o[1], under_odds |-> o[2]] :
        l \in {1400, 1455, 1500}, o \in PricePairs}

\* odds records with both sections, with one of them, with none
OddsRecords ==
    {EmptyDict} \cup {[spread |-> s] : s \in SpreadSections}
        \cup {[total |-> t] : t \in TotalSections}
        \cup {[spread |-> s, total |-> t] : s \in SpreadSections, t \in TotalSections}

\* a predicted spread or a predicted total, with its type
BetPredictions ==
    ({"spread"} \X {-120, -55, -30, 0, 30, 55, 80, 120})
        \cup ({"total"} \X {1300, 1400, 1455, 1456, 1500, 1600})

\* confidences predict_spread and predict_total return
BetConfidences == {306, 350, 525, 850}

CreateBetFromPrediction ==
    /\ call = NoFn
    /\ \E game \in BetGames, p \in BetPredictions, confidence \in BetConfidences,
          odds_data \in OddsRecords :
          \E bets \in create_bet_from_prediction(game, p[1], p[2], confidence,
                                                 odds_data) :
             call' = [fn |-> "create_bet_from_prediction",
                      args |-> [game |-> game, prediction_type |-> p[1],
                                prediction |-> p[2], confidence |-> confidence,
                                odds_data |-> odds_data],
                      out |-> bets]
    /\ UNCHANGED <<dbVars, selVars>>

(***************************************************************************)
(* C16: for a total, create_bet_from_prediction picks Over only when the   *)
(* predicted total is strictly greater than the market line; a predicted   *)
(* total equal to the line gives an Under pick at the under odds, with     *)
(* edge 0.                                                                 *)
(***************************************************************************)
C16_OverOnlyAboveLine ==
    (call.fn = "create_bet_from_prediction" /\ call.args.prediction_type = "total") =>
        LET market_total == Get(call.args.odds_data, "total", EmptyDict)
            line == Get(market_total, "line", 1400)
            bet == call.out[1]
        IN /\ Len(call.out) = 1
           /\ (SubSeq(bet.pick, 1, 5) = <<"O", "v", "e", "r", " ">>)
                 <=> (call.args.prediction > line)
           /\ call.args.prediction = line =>
                 /\ SubSeq(bet.pick, 1, 6) = <<"U", "n", "d", "e", "r", " ">>
                 /\ bet.odds = Get(market_total, "under_odds", -110)
                 /\ TotalPick(call.args.prediction, call.args.odds_data).edge = 0
                 /\ bet.predicted_prob = total_to_probability(0)

\* predicted 145.5 against a line of 145.5 priced -105 / -115: Under at -115
C16_Witness ==
    /\ call.fn = "create_bet_from_prediction"
    /\ call.args.prediction_type = "total"
    /\ call.args.prediction = 1455
    /\ "total" \in DOMAIN call.args.odds_data
    /\ call.args.odds_data["total"] =
           [line |-> 1455, over_odds |-> -105, under_odds |-> -115]
    /\ call.out[1].odds = -115
    /\ call.out[1].pick = <<"U", "n", "d", "e", "r", " ", "1", "4", "5", ".", "5">>

(***************************************************************************)
(* C17: given an odds record without the spread section (or without the    *)
(* total section), create_bet_from_prediction emits no spread bet (no      *)
(* total bet).  The code reads the section with defaults (line 0 or 140,   *)
(* odds -110) and emits a bet on them.                                     *)
(***************************************************************************)
C17_NoBetWithoutMarketData ==
    (/\ call.fn = "create_bet_from_prediction"
     /\ call.args.prediction_type \notin DOMAIN call.args.odds_data) =>
        call.out = <<>>

(***************************************************************************)
(* C18: a pick string parses back.  For a spread bet the last token read   *)
(* as a number and the other tokens joined by a space are the line and the *)
(* team that were picked; for a total bet the string is 'Over <line>' or   *)
(* 'Under <line>' and the last token and the word Over give back the line  *)
(* and the side.                                                           *)
(***************************************************************************)
C18_PickParsesBack ==
    call.fn = "create_bet_from_prediction" =>
        LET pick == call.out[1].pick IN
        IF call.args.prediction_type = "spread"
        THEN LET side == SpreadPick(call.args.game, call.args.prediction,
                                    call.args.odds_data)
                 parsed == ParseSpreadPick(pick)
             IN /\ ~parsed.error
                /\ parsed.pick_team = side.pick_team
                /\ parsed.pick_spread = side.pick_spread
        ELSE LET line == Get(Get(call.args.odds_data, "total", EmptyDict),
                             "line", 1400)
                 parsed == ParseTotalPick(pick)
             IN /\ \/ pick = <<"O", "v", "e", "r", " ">>
                                \o TotalLineString(call.args.odds_data)
                   \/ pick = <<"U", "n", "d", "e", "r", " ">>
                                \o TotalLineString(call.args.odds_data)
                /\ ~parsed.error
                /\ parsed.line = line
                /\ parsed.over <=> (call.args.prediction > line)

\* a spread pick on a team with a two-word name getting points
C18_Witness ==
    /\ call.fn = "create_bet_from_prediction"
    /\ call.args.prediction_type = "spread"
    /\ call.out[1].pick =
           <<"M", "i", "a", "m", "i", " ", "(", "O", "H", ")", " ", "+", "5", ".", "5">>
    /\ ParseSpreadPick(call.out[1].pick).pick_spread = 55

\* main(), lines 429-456: the spread pick shown for a game
main_spread_pick(game, predicted_spread, odds_data) ==
    LET market_spread == Get(odds_data, "spread", EmptyDict)
        home_spread == Get(market_spread, "home_spread", 0)
        away_spread == Get(market_spread, "away_spread", 0)
        home_odds == Get(market_spread, "home_odds", -110)
        away_odds == Get(market_spread, "away_odds", -110)
        edge == predicted_spread + home_spread
    IN IF edge > 0
       THEN [spread_pick |-> game.home_team \o <<" ">> \o FormatSigned1f(home_spread),
             spread_odds |-> home_odds]
       ELSE [spread_pick |-> game.away_team \o <<" ">> \o FormatSigned1f(away_spread),
             spread_odds |-> away_odds]

\* market lines come in half points
HalfPointLines == {l \in (-MaxSpread)..MaxSpread : l % 5 = 0}

\* main() for one game: the spread pick it shows and the spread bet it has
\* the selector create from the same prediction and odds
AnalyzeGameSpread ==
    /\ call = NoFn
    /\ \E game \in BetGames, predicted_spread \in (-MaxSpread)..MaxSpread,
          home_spread \in HalfPointLines :
          LET odds_data == [spread |-> [home_spread |-> home_spread,
                                        away_spread |-> -home_spread,
                                        home_odds |-> -110, away_odds |-> -110]]
          IN \E spread_bets \in create_bet_from_prediction(
                                    game, "spread", predicted_spread, 525, odds_data) :
                call' = [fn |-> "main_spread_pick",
                         args |-> [game |-> game, predicted_spread |-> predicted_spread,
                                   odds_data |-> odds_data],
                         out |-> [shown |-> main_spread_pick(game, predicted_spread,
                                                             odds_data),
                                  spread_bets |-> spread_bets]]
    /\ UNCHANGED <<dbVars, selVars>>

NextBets == CreateBetFromPrediction \/ AnalyzeGameSpread

SpecBets == Init /\ [][NextBets]_vars

(***************************************************************************)
(* C20: with away_spread = -home_spread, the side of the spread bet        *)
(* create_bet_from_prediction makes is the side main's spread-pick rule    *)
(* shows: home exactly when predicted_spread + home_spread > 0, otherwise  *)
(* away.  The selector compares the prediction with the magnitude of the   *)
(* line, so it differs from main whenever the model and the market favour  *)
(* different teams, or one of them sees an even game.                      *)
(***************************************************************************)
C20_SelectorSideIsMainSide ==
    call.fn = "main_spread_pick" =>
        LET home_spread == call.args.odds_data["spread"]["home_spread"]
            side == SpreadPick(call.args.game, call.args.predicted_spread,
                               call.args.odds_data)
        IN /\ call.out.spread_bets[1].pick = call.out.shown.spread_pick
           /\ (side.pick_team = call.args.game.home_team)
                 <=> (call.args.predicted_spread + home_spread > 0)

(***************************************************************************)
(* predict_spread from the team statistics on (model.py): the regression   *)
(* weight, the projected scores and the blend toward the market spread.    *)
(* Ratings, paces and points per game are in tenths, weights in 1e-5,      *)
(* adjusted ratings and efficiencies in 1e-6 and spreads in 1e-4 of a      *)
(* point; a statistics or game dictionary is a function over the keys      *)
(* that are present, and a missing game_info (None) is the empty one.      *)
(***************************************************************************)
CONFERENCE_TIERS ==
    ("Big Ten" :> 1) @@ ("SEC" :> 1) @@ ("Big 12" :> 1) @@ ("ACC" :> 1)
        @@ ("Big East" :> 2) @@ ("Pac-12" :> 2)
        @@ ("Mountain West" :> 3) @@ ("Atlantic 10" :> 3)
        @@ ("West Coast" :> 3) @@ ("American Athletic" :> 3)
        @@ ("Missouri Valley" :> 4) @@ ("Conference USA" :> 4)
        @@ ("Sun Belt" :> 4) @@ ("Mid-American" :> 4) @@ ("MAC" :> 4)
        @@ ("Horizon" :> 5) @@ ("WAC" :> 5) @@ ("Big West" :> 5)
        @@ ("Big Sky" :> 5) @@ ("Summit" :> 5) @@ ("Southern" :> 5)
        @@ ("Colonial" :> 5) @@ ("America East" :> 5)
        @@ ("Southland" :> 6) @@ ("Ohio Valley" :> 6) @@ ("MAAC" :> 6)
        @@ ("Northeast" :> 6) @@ ("Patriot" :> 6) @@ ("Atlantic Sun" :> 6)
        @@ ("Big South" :> 6) @@ ("SWAC" :> 6) @@ ("MEAC" :> 6)

\* calculate_team_metrics: the metrics the predictions read
calculate_team_metrics(team_stats) ==
    LET ppg == Get(team_stats, "points_per_game", 0)
        opp_ppg == Get(team_stats, "opponent_points_per_game", 0)
        offensive_rating == Get(team_stats, "offensive_rating", ppg)
        defensive_rating == Get(team_stats, "defensive_rating", opp_ppg)
    IN [offensive_rating |-> offensive_rating,
        defensive_rating |-> defensive_rating,
        net_rating |-> offensive_rating - defensive_rating,
        pace |-> Get(team_stats, "pace", ppg + opp_ppg)]

\* the outcomes of the float comparison x > y: decided by the values unless
\* they are equal and were computed inexactly in binary
Greater(x, y, exact) == IF x = y /\ ~exact THEN {TRUE, FALSE} ELSE {x > y}

\* tenths that are a whole or a half number are exact in binary
Dyadic(tenths) == tenths % 5 = 0

\* a base weight that starts from 0.70 instead of 0.75
BaseWeightFromSeventy(games) ==
    IF games <= 10 THEN 70000 + games * 1500
    ELSE IF games <= 20 THEN 85000 + (games - 10) * 700
    ELSE IF games <= 40 THEN 92000 + (games - 20) * 250
    ELSE 97000 + Min((games - 40) * 50, 2000)

\* base_weight of get_adaptive_regression_weight; games is home_games + away_games
BaseWeight(games) ==
    IF games <= 10 THEN 75000 + games * 1000
    ELSE IF games <= 20 THEN 85000 + (games - 10) * 700
    ELSE IF games <= 40 THEN 92000 + (games - 20) * 250
    ELSE 97000 + Min((games - 40) * 50, 2000)

\* conference_boost of get_adaptive_regression_weight, scaled by (10 - avg_games) / 10
ConferenceBoost(game_info, games) ==
    LET home_tier == Get(CONFERENCE_TIERS, Get(game_info, "home_conference", ""), 7)
        away_tier == Get(CONFERENCE_TIERS, Get(game_info, "away_conference", ""), 7)
        tier_gap == Abs(home_tier - away_tier)
        conference_boost == IF tier_gap >= 3 THEN 12000
                            ELSE IF tier_gap >= 2 THEN 8000
                            ELSE IF tier_gap >= 1 THEN 4000 ELSE 0
    IN IF DOMAIN game_info # {} /\ games < 20
       THEN (conference_boost * (20 - games)) \div 20
       ELSE 0

\* get_adaptive_regression_weight: the possible weights
get_adaptive_regression_weight(home_stats, away_stats, home_recent, away_recent, game_info) ==
    LET home_games == Get(home_stats, "games", Len(home_recent))
        away_games == Get(away_stats, "games", Len(away_recent))
        games == home_games + away_games
        home_metrics == calculate_team_metrics(home_stats)
        away_metrics == calculate_team_metrics(away_stats)
        net_rating_gap == Abs(home_metrics.net_rating - away_metrics.net_rating)
        off_rating_gap == Abs(home_metrics.offensive_rating - away_metrics.offensive_rating)
        def_rating_gap == Abs(home_metrics.defensive_rating - away_metrics.defensive_rating)
        \* in hundredths
        max_gap == Max(10 * net_rating_gap, Max(7 * off_rating_gap, 7 * def_rating_gap))
        exact == /\ Dyadic(home_metrics.offensive_rating)
                 /\ Dyadic(home_metrics.defensive_rating)
                 /\ Dyadic(away_metrics.offensive_rating)
                 /\ Dyadic(away_metrics.defensive_rating)
        home_wins == Get(home_stats, "wins", 0)
        away_wins == Get(away_stats, "wins", 0)
        \* win_pct_gap > 0.6, both sides times 5 * home_games * away_games
        lopsided == Greater(5 * Abs(home_wins * Max(1, away_games)
                                        - away_wins * Max(1, home_games)),
                            3 * Max(1, home_games) * Max(1, away_games),
                            home_wins = 0 \/ away_wins = 0)
        conference_boost == ConferenceBoost(game_info, games)
        TalentBoost(over30, over20, over15, under15, win_gap) ==
            LET by_gap == IF over30 THEN 10000
                          ELSE IF over20 THEN 7000
                          ELSE IF over15 THEN 4000 ELSE 0
                by_wins == IF home_games >= 2 /\ away_games >= 2 /\ win_gap /\ under15
                           THEN Max(by_gap, 6000) ELSE by_gap
            IN Max(by_wins, conference_boost)
    IN {Min(99000, BaseWeight(games) + TalentBoost(over30, over20, over15, under15, win_gap)) :
           over30 \in Greater(max_gap, 3000, exact),
           over20 \in Greater(max_gap, 2000, exact),
           over15 \in Greater(max_gap, 1500, exact),
           under15 \in Greater(150, net_rating_gap, exact),
           win_gap \in lopsided}

\* validate_rating: a rating outside [60, 180] is replaced by 100
validate_rating(rating) ==
    IF rating <= 0 \/ rating < 600 \/ rating > 1800 THEN 1000 ELSE rating

\* regression_weight of predict_spread, lines 425-443, from the base weight
RegressionWeight(base_regression_weight, home_stats, away_stats) ==
    LET home_games == Get(home_stats, "games", 0)
        away_games == Get(away_stats, "games", 0)
        home_unreliable ==
            home_games > 0 /\ Get(home_stats, "wins", 0) + Get(home_stats, "losses", 0) = 0
        away_unreliable ==
            away_games > 0 /\ Get(away_stats, "wins", 0) + Get(away_stats, "losses", 0) = 0
    IN IF (home_unreliable \/ away_unreliable) /\ home_games + away_games < 6
       THEN (base_regression_weight * 60) \div 100
       ELSE IF home_games + away_games < 4
       THEN (base_regression_weight * 80) \div 100
       ELSE base_regression_weight

\* rating * regression_weight + league_avg * (1 - regression_weight)
Regressed(rating, regression_weight) ==
    rating * regression_weight + 1000 * (100000 - regression_weight)

\* the projected score at the default pace of 70 whatever the game's pace
ProjectedAtDefaultPace(expected_eff, game_pace) ==
    ((expected_eff \div 10000) * 70000
        + ((expected_eff % 10000) * 70000) \div 10000) \div 1000

\* (expected_eff * game_pace) / 100 in 1e-4 of a point, cut off; game_pace in 1e-3
Projected(expected_eff, game_pace) ==
    ((expected_eff \div 10000) * game_pace
        + ((expected_eff % 10000) * game_pace) \div 10000) \div 1000

\* game_pace of predict_spread, in 1e-3
GamePace(home_metrics, away_metrics) ==
    55 * validate_pace(home_metrics.pace) + 45 * validate_pace(away_metrics.pace)

\* form_adjustment of predict_spread: a tenth of the difference of the average margins, within +-5
FormAdjustment(home_recent, away_recent) ==
    LET home_sum == SumFrom([i \in 1..Len(home_recent) |-> Margin(home_recent[i], "home")], 1)
        away_sum == SumFrom([i \in 1..Len(away_recent) |-> Margin(away_recent[i], "away")], 1)
        home_n == Max(1, Len(home_recent))
        away_n == Max(1, Len(away_recent))
    IN Max(-50000, Min(50000, ((home_sum * away_n - away_sum * home_n) * 1000)
                                  \div (home_n * away_n)))

\* predict_spread, lines 374-472: the spread of the projected scores
projected_spread(home_stats, away_stats, home_recent, away_recent, base_regression_weight) ==
    LET home_metrics == calculate_team_metrics(home_stats)
        away_metrics == calculate_team_metrics(away_stats)
        game_pace == GamePace(home_metrics, away_metrics)
        regression_weight == RegressionWeight(base_regression_weight, home_stats, away_stats)
        home_off_adj == Regressed(validate_rating(home_metrics.offensive_rating), regression_weight)
        away_def_adj == Regressed(validate_rating(away_metrics.defensive_rating), regression_weight)
        away_off_adj == Regressed(validate_rating(away_metrics.offensive_rating), regression_weight)
        home_def_adj == Regressed(validate_rating(home_metrics.defensive_rating), regression_weight)
        home_expected_eff == home_off_adj + (away_def_adj - 100000000) + 3500000
        away_expected_eff == away_off_adj + (home_def_adj - 100000000)
    IN Projected(home_expected_eff, game_pace) - Projected(away_expected_eff, game_pace)
           + FormAdjustment(home_recent, away_recent)

\* spread_data of predict_spread: the spread section of the game's odds
SpreadData(game_info) ==
    Get(Get(game_info, "odds", EmptyDict), "spread", EmptyDict)

\* games_factor = max(0.3, (15 - num_games) / 15), times 30
GamesFactor(num_games) == Max(9, 2 * (15 - num_games))

\* the blend factor of an extreme mismatch whatever the market magnitude
BlendFactorExtremeOnly(market_mag, num_games) ==
    2100 + 20 * GamesFactor(num_games)

\* blend_factor of predict_spread, times 3000; market_mag in 1e-4 of a point
BlendFactor(market_mag, num_games) ==
    IF market_mag >= 250000 THEN 2100 + 20 * GamesFactor(num_games)
    ELSE IF market_mag >= 200000 THEN 1800 + 20 * GamesFactor(num_games)
    ELSE IF market_mag >= 150000 THEN 1500 + 15 * GamesFactor(num_games)
    ELSE 1200 + 10 * GamesFactor(num_games)

\* gap * blend_factor, cut off at 1e-4 of a point
BlendAdjustment(gap, blend_factor) ==
    (gap \div 3000) * blend_factor + ((gap % 3000) * blend_factor) \div 3000

\* predict_spread, lines 474-523: the spread after the market adjustment;
\* the market's home_spread is in tenths
market_adjusted_spread(predicted_spread, game_info, num_games) ==
    LET spread_data == SpreadData(game_info)
        market_spread == spread_data["home_spread"]
        market_fav_home == market_spread < 0
        model_fav_home == predicted_spread > 0
        market_mag == 1000 * Abs(market_spread)
        model_mag == Abs(predicted_spread)
        gap == market_mag - model_mag
        adjustment == BlendAdjustment(gap, BlendFactor(market_mag, num_games))
    IN IF DOMAIN game_info # {} /\ num_games < 15 /\ "home_spread" \in DOMAIN spread_data
       THEN IF market_fav_home = model_fav_home /\ gap > 50000
            THEN IF market_fav_home THEN predicted_spread + adjustment
                                    ELSE predicted_spread - adjustment
            ELSE predicted_spread
       ELSE predicted_spread

\* predict_spread: the possible results <<spread in tenths, confidence in 1e-3>> for a game
predict_spread_of_game(home_stats, away_stats, home_recent, away_recent, game_info) ==
    UNION {predict_spread(home_recent, away_recent,
                          market_adjusted_spread(
                              projected_spread(home_stats, away_stats, home_recent,
                                               away_recent, base_regression_weight),
                              game_info, Len(home_recent) + Len(away_recent))) :
              base_regression_weight \in
                  get_adaptive_regression_weight(home_stats, away_stats, home_recent,
                                                 away_recent, game_info)}

\* season statistics get_team_stats may return: none, a strong and a weak
\* team, a slow and a fast one, a team whose games carry no record, ratings
\* and a pace out of range, and points per game alone
TeamStats ==
    {EmptyDict,
     ("offensive_rating" :> 1182) @@ ("defensive_rating" :> 953) @@ ("pace" :> 684)
         @@ ("games" :> 5) @@ ("wins" :> 4) @@ ("losses" :> 1),
     ("offensive_rating" :> 968) @@ ("defensive_rating" :> 1087) @@ ("pace" :> 718)
         @@ ("games" :> 5) @@ ("wins" :> 1) @@ ("losses" :> 4),
     ("offensive_rating" :> 1050) @@ ("defensive_rating" :> 1020) @@ ("pace" :> 550)
         @@ ("games" :> 24) @@ ("wins" :> 14) @@ ("losses" :> 10),
     ("offensive_rating" :> 1105) @@ ("defensive_rating" :> 985) @@ ("pace" :> 850)
         @@ ("games" :> 9) @@ ("wins" :> 7) @@ ("losses" :> 2),
     ("offensive_rating" :> 1100) @@ ("defensive_rating" :> 1000) @@ ("pace" :> 700)
         @@ ("games" :> 3),
     ("offensive_rating" :> 2000) @@ ("defensive_rating" :> 500) @@ ("pace" :> 900)
         @@ ("games" :> 12) @@ ("wins" :> 6) @@ ("losses" :> 6),
     ("points_per_game" :> 780) @@ ("opponent_points_per_game" :> 702)
         @@ ("games" :> 2) @@ ("wins" :> 2) @@ ("losses" :> 0)}

\* recent games of the home team: none, mostly won, all lost
SpreadHomeRecent == {<<>>, Recent("home", 2, 0, 1), Recent("home", 0, 0, 4)}

\* recent games of the away team: none, close wins, a long mixed run
SpreadAwayRecent == {<<>>, Recent("away", 0, 2, 0), Recent("away", 0, 5, 5)}

\* a game whose market makes the home team's spread home_spread, in tenths
WithMarket(home_spread) ==
    "odds" :> ("spread" :> ("home_spread" :> home_spread))

\* game_info of predict_spread: none, odds without a spread, a home and an
\* away favourite, and conferences one and three tiers apart
GameInfos ==
    {EmptyDict,
     "odds" :> EmptyDict,
     WithMarket(-185),
     WithMarket(245),
     ("home_conference" :> "Big Ten") @@ ("away_conference" :> "Big East"),
     WithMarket(-265) @@ ("home_conference" :> "Big Ten") @@ ("away_conference" :> "MAC")}

PredictSpreadOfGame ==
    /\ call = NoFn
    /\ \E home_stats \in TeamStats, away_stats \in TeamStats,
          home_recent \in SpreadHomeRecent, away_recent \in SpreadAwayRecent,
          game_info \in GameInfos :
          \E result \in predict_spread_of_game(home_stats, away_stats, home_recent,
                                               away_recent, game_info) :
             call' = [fn |-> "predict_spread_of_game",
                      args |-> <<home_stats, away_stats, home_recent, away_recent, game_info>>,
                      out |-> result]
    /\ UNCHANGED <<dbVars, selVars>>

\* spreads of the projected scores, in 1e-4 of a point: near every whole
\* number of points up to MaxModelSpread
ModelSpreads ==
    {10000 * points + 1234 * (points % 4) : points \in (-MaxModelSpread)..MaxModelSpread}

\* market lines, in tenths: the half points up to MaxMarketLine points
MarketLines == {5 * half : half \in (-2 * MaxMarketLine)..(2 * MaxMarketLine)}

\* combined recent-game counts: each games_factor regime, and past the window
BlendGameCounts == {0, 4, 10, 11, 14, 15, 20}

MarketAdjustedSpread ==
    /\ call = NoFn
    /\ \E predicted_spread \in ModelSpreads,
          game_info \in {WithMarket(line) : line \in MarketLines} \cup {EmptyDict, "odds" :> EmptyDict},
          num_games \in BlendGameCounts :
          call' = [fn |-> "market_adjusted_spread",
                   args |-> <<predicted_spread, game_info, num_games>>,
                   out |-> <<market_adjusted_spread(predicted_spread, game_info, num_games)>>]
    /\ UNCHANGED <<dbVars, selVars>>

NextSpread == PredictSpreadOfGame \/ MarketAdjustedSpread

SpecSpread == Init /\ [][NextSpread]_vars

\* C14: for two teams with identical season statistics, no recent games and
\* no market spread, predict_spread returns the home-court boost carried
\* through the pace, 3.5 * game_pace / 100 rounded to one decimal with the
\* home team favoured, and the confidence 0.40 * 0.90 = 0.36.
C14_EvenMatchupSpread ==
    (/\ call.fn = "predict_spread_of_game"
     /\ call.args[1] = call.args[2]
     /\ call.args[3] = <<>> /\ call.args[4] = <<>>
     /\ "home_spread" \notin DOMAIN SpreadData(call.args[5]))
        => LET pace == validate_pace(calculate_team_metrics(call.args[1]).pace)
           IN /\ call.out[1] > 0
              \* spread in tenths against 3.5 * pace / 100, both in 1e-4 of a tenth
              /\ Abs(10000 * call.out[1] - 350 * pace) <= 5000
              /\ call.out[2] = 360

\* predict_spread has returned 3.0 and 0.36 for two equal fast-paced teams
\* (pace 85) nine games into the season, without recent games or odds
C14_Witness ==
    /\ call.fn = "predict_spread_of_game"
    /\ call.args[1] = call.args[2]
    /\ Get(call.args[1], "pace", 0) = 850
    /\ call.args[3] = <<>> /\ call.args[4] = <<>>
    /\ call.args[5] = EmptyDict
    /\ call.out = <<30, 360>>

C21_SpreadEdgeIsDisagreement ==
    (/\ call.fn = "create_bet_from_prediction"
     /\ call.args.prediction_type = "spread"
     /\ "spread" \in DOMAIN call.args.odds_data)
        => LET market_spread == call.args.odds_data["spread"]
               edge == SpreadPick(call.args.game, call.args.prediction,
                                  call.args.odds_data).edge
           IN /\ edge >= 0
              /\ market_spread.away_spread = -market_spread.home_spread
                    => edge = Abs(call.args.prediction + market_spread.home_spread)

(***************************************************************************)
(* The projected scores behind the spread and behind the total.            *)
(***************************************************************************)
\* home_projected and away_projected from the regression weight on (lines
\* 445-469 of predict_spread, 618-646 of predict_total), in 1e-4 of a point
ProjectedScores(home_stats, away_stats, regression_weight) ==
    LET home_metrics == calculate_team_metrics(home_stats)
        away_metrics == calculate_team_metrics(away_stats)
        game_pace == GamePace(home_metrics, away_metrics)
        home_off_adj == Regressed(validate_rating(home_metrics.offensive_rating), regression_weight)
        away_def_adj == Regressed(validate_rating(away_metrics.defensive_rating), regression_weight)
        away_off_adj == Regressed(validate_rating(away_metrics.offensive_rating), regression_weight)
        home_def_adj == Regressed(validate_rating(home_metrics.defensive_rating), regression_weight)
        home_expected_eff == home_off_adj + (away_def_adj - 100000000) + 3500000
        away_expected_eff == away_off_adj + (home_def_adj - 100000000)
    IN <<Projected(home_expected_eff, game_pace), Projected(away_expected_eff, game_pace)>>

\* the projected scores of predict_spread: the base weight goes through lines 425-443
spread_projected_scores(home_stats, away_stats, base_regression_weight) ==
    ProjectedScores(home_stats, away_stats,
                    RegressionWeight(base_regression_weight, home_stats, away_stats))

\* the projected scores of predict_total: the base weight is used as it is
total_projected_scores(home_stats, away_stats, base_regression_weight) ==
    ProjectedScores(home_stats, away_stats, base_regression_weight)

\* season statistics early in a season: one game each, with and without a record
EarlyTeamStats ==
    {("offensive_rating" :> 1182) @@ ("defensive_rating" :> 953) @@ ("pace" :> 684)
         @@ ("games" :> 1) @@ ("wins" :> 1) @@ ("losses" :> 0),
     ("offensive_rating" :> 968) @@ ("defensive_rating" :> 1087) @@ ("pace" :> 718)
         @@ ("games" :> 1)}

\* main (lines 411-421) asks for the spread and the total of a game with the
\* same teams and the same game: the projected scores of both predictions
ProjectScores ==
    /\ call = NoFn
    /\ \E home_stats \in TeamStats \cup EarlyTeamStats,
          away_stats \in TeamStats \cup EarlyTeamStats,
          home_recent \in SpreadHomeRecent, away_recent \in SpreadAwayRecent,
          game_info \in GameInfos :
          \E base_regression_weight \in
                 get_adaptive_regression_weight(home_stats, away_stats, home_recent,
                                                away_recent, game_info) :
             call' = [fn |-> "projected_scores",
                      args |-> <<home_stats, away_stats, home_recent, away_recent, game_info>>,
                      out |-> [spread |-> spread_projected_scores(home_stats, away_stats,
                                                                  base_regression_weight),
                               total |-> total_projected_scores(home_stats, away_stats,
                                                                base_regression_weight)]]
    /\ UNCHANGED <<dbVars, selVars>>

NextScores == ProjectScores

SpecScores == Init /\ [][NextScores]_vars

\* C22: predict_total regresses the ratings with the weight predict_spread
\* uses for the same statistics, recent games and context, so the projected
\* home and away scores behind the total are those behind the spread.
C22_SameProjectedScores ==
    call.fn = "projected_scores" => call.out.total = call.out.spread

(***************************************************************************)
(* get_adaptive_regression_weight on its own.                              *)
(***************************************************************************)
\* game_info of get_adaptive_regression_weight: GameInfos, conferences two
\* tiers apart, and a conference that is missing, None or not in the table
WeightGameInfos ==
    GameInfos \cup
    {("home_conference" :> "Big Ten") @@ ("away_conference" :> "Mountain West"),
     ("home_conference" :> "MAC") @@ ("away_conference" :> "Mid-American"),
     "home_conference" :> "Big Ten",
     WithMarket(-185) @@ ("away_conference" :> "Horizon"),
     ("home_conference" :> "None") @@ ("away_conference" :> "SEC"),
     ("home_conference" :> "Big East") @@ ("away_conference" :> "Ivy League"),
     ("home_conference" :> "Ivy League") @@ ("away_conference" :> "None")}

GetAdaptiveRegressionWeight ==
    /\ call = NoFn
    /\ \E home_stats \in TeamStats \cup EarlyTeamStats,
          away_stats \in TeamStats \cup EarlyTeamStats,
          home_recent \in SpreadHomeRecent, away_recent \in SpreadAwayRecent,
          game_info \in WeightGameInfos :
          \E final_weight \in get_adaptive_regression_weight(home_stats, away_stats,
                                                             home_recent, away_recent,
                                                             game_info) :
             call' = [fn |-> "get_adaptive_regression_weight",
                      args |-> <<home_stats, away_stats, home_recent, away_recent, game_info>>,
                      out |-> <<final_weight>>]
    /\ UNCHANGED <<dbVars, selVars>>

NextWeight == GetAdaptiveRegressionWeight

SpecWeight == Init /\ [][NextWeight]_vars

\* C23: get_adaptive_regression_weight keeps the larger of the talent boost
\* and the decayed conference boost and never their sum: the weight is
\* min(0.99, base_weight + max(talent_boost, conference_boost)), the
\* conference boost being zero without a game context or from an average of
\* 10 games on, and lies within [0.75, 0.99].
C23_LargerBoostOnly ==
    call.fn = "get_adaptive_regression_weight" =>
        LET home_stats == call.args[1]
            away_stats == call.args[2]
            home_recent == call.args[3]
            away_recent == call.args[4]
            game_info == call.args[5]
            games == Get(home_stats, "games", Len(home_recent))
                         + Get(away_stats, "games", Len(away_recent))
            conference_boost == IF game_info = EmptyDict \/ games >= 20 THEN 0
                                ELSE ConferenceBoost(game_info, games)
        IN /\ call.out[1] >= 75000 /\ call.out[1] <= 99000
           \* the weight the talent boost alone gives is the one without a game context
           /\ \E talent_only \in get_adaptive_regression_weight(home_stats, away_stats,
                                                                home_recent, away_recent,
                                                                EmptyDict) :
                 call.out[1] = Max(talent_only,
                                   Min(99000, BaseWeight(games) + conference_boost))

\* a strong home team of the Big Ten against a weak one of the MAC, five
\* games each: talent boost 0.10, conference boost 0.12 * 0.5 = 0.06, and the
\* weight is 0.85 + 0.10
C23_Witness ==
    /\ call.fn = "get_adaptive_regression_weight"
    /\ Get(call.args[1], "offensive_rating", 0) = 1182
    /\ Get(call.args[2], "offensive_rating", 0) = 968
    /\ Get(call.args[1], "games", 0) = 5 /\ Get(call.args[2], "games", 0) = 5
    /\ Get(call.args[5], "home_conference", "") = "Big Ten"
    /\ Get(call.args[5], "away_conference", "") = "MAC"
    /\ call.out = <<95000>>

\* C24: when the game context's conference of a team is missing, None or
\* not in the tier table, the conference boost is skipped: the weight is the
\* one without any conference information.
C24_UnknownConferenceSkipsBoost ==
    (/\ call.fn = "get_adaptive_regression_weight"
     /\ \/ Get(call.args[5], "home_conference", "None") \notin DOMAIN CONFERENCE_TIERS
        \/ Get(call.args[5], "away_conference", "None") \notin DOMAIN CONFERENCE_TIERS)
        => LET game_info == call.args[5]
               \* game_info without its conference names
               without == [key \in DOMAIN game_info \ {"home_conference", "away_conference"}
                              |-> game_info[key]]
           IN call.out[1] \in get_adaptive_regression_weight(call.args[1], call.args[2],
                                                             call.args[3], call.args[4],
                                                             without)

(***************************************************************************)
(* The variance and quality factors of analyze_recent_form, compared for   *)
(* two lists of per-game margins.                                          *)
(***************************************************************************)
\* per-game margins of a team: two games 0 and d, three games -d, 0 and d
MarginLists ==
    {<<0, d>> : d \in 0..MaxMargin} \cup {<<-d, 0, d>> : d \in 0..MaxMargin}

\* n^2 times the variance of the margins: np.std(margins) is its root over n
SquaredDeviation(margins) ==
    Len(margins) * SumFrom([i \in 1..Len(margins) |-> margins[i] * margins[i]], 1)
        - SumFrom(margins, 1) * SumFrom(margins, 1)

\* max(margins) - min(margins)
Swing(margins) ==
    LET ms == Range(margins)
    IN (CHOOSE m \in ms : \A o \in ms : o <= m) - (CHOOSE m \in ms : \A o \in ms : o >= m)

FormFactors ==
    /\ call = NoFn
    /\ \E margins \in MarginLists, other \in MarginLists :
          call' = [fn |-> "form_factors",
                   args |-> <<margins, other>>,
                   out |-> [variance_factor |-> <<VarianceFactor(margins),
                                                  VarianceFactor(other)>>,
                            quality_factor |-> <<QualityFactor(margins),
                                                 QualityFactor(other)>>]]
    /\ UNCHANGED <<dbVars, selVars>>

NextForm == FormFactors

SpecForm == Init /\ [][NextForm]_vars

\* C25: with at least two games the variance factor never rises with the
\* standard deviation of the margins: of two margin lists, the one with the
\* lower standard deviation has a variance factor at least as high.
C25_VarianceFactorFalls ==
    call.fn = "form_factors" =>
        LET margins == call.args[1]
            other == call.args[2]
        IN \* std(margins) <= std(other), both sides squared and cleared of the divisions
           SquaredDeviation(margins) * Len(other) * Len(other)
                   <= SquaredDeviation(other) * Len(margins) * Len(margins)
               => call.out.variance_factor[1] >= call.out.variance_factor[2]

\* C26: with at least three games a swing above 40 is a penalty: the quality
\* factor is then at most the normal 0.8 and at least 0.3, and a larger swing
\* never gives a higher factor.
C26_SwingIsPenalty ==
    (/\ call.fn = "form_factors"
     /\ Len(call.args[1]) >= 3 /\ Len(call.args[2]) >= 3
     /\ Swing(call.args[1]) > 40)
        => /\ call.out.quality_factor[1] <= 80
           /\ call.out.quality_factor[1] >= 30
           /\ Swing(call.args[2]) >= Swing(call.args[1])
                 => call.out.quality_factor[2] <= call.out.quality_factor[1]

(***************************************************************************)
(* main's loop over the games of the day (main.py): the predictions and    *)
(* the bets it collects.  call.args lists the games analysed so far and    *)
(* call.out holds all_predictions and all_bets.                            *)
(***************************************************************************)
\* the names config.py defines
ConfigNames ==
    {"HOME_COURT_ADVANTAGE", "RECENT_GAMES_LIMIT", "D1_GAMES_ONLY", "MAX_ODDS",
     "NUM_BEST_BETS", "WEIGHTS", "MIN_CONFIDENCE_FOR_BEST_BETS",
     "SHOW_DETAILED_ANALYSIS", "USE_COLORED_OUTPUT", "TABLE_FORMAT", "USE_CACHING",
     "CACHE_EXPIRY_MINUTES", "RECOMMENDED_UNIT_SIZE", "MAX_BETS_PER_DAY", "LOG_LEVEL",
     "LOG_TO_FILE", "LOG_FILE", "ENABLE_MONEYLINE_BETS", "ENABLE_ALTERNATE_LINES",
     "ENABLE_PLAYER_PROPS", "ENABLE_LIVE_BETTING", "SHOOTING_WEIGHTS",
     "SPREAD_POINT_VALUE", "TOTAL_POINT_VALUE", "ODDS_FILTERS",
     "MIN_GAMES_FOR_PREDICTION", "MIN_GAMES_FOR_CONFIDENCE", "HIGH_VALUE_BET_THRESHOLD",
     "LINE_MOVEMENT_THRESHOLD", "BACKTEST_START_DATE", "BACKTEST_END_DATE",
     "BACKTEST_INITIAL_BANKROLL", "TEAM_ADJUSTMENTS", "CONFERENCE_MULTIPLIERS",
     "TOURNAMENT_ADJUSTMENT", "RIVALRY_GAME_ADJUSTMENT", "BACK_TO_BACK_PENALTY",
     "get_odds_filter", "get_config_summary"}

\* create_default_odds
create_default_odds ==
    [spread |-> [home_spread |-> -55, away_spread |-> 55,
                 home_odds |-> -110, away_odds |-> -110],
     total |-> [line |-> 1455, over_odds |-> -110, under_odds |-> -110],
     moneyline |-> [home_odds |-> -200, away_odds |-> 170]]

\* one pass of the loop body for a game, lines 384-593: the lists afterwards.
\* An exception anywhere in the body is caught at line 591 and the loop
\* goes on with the next game.
analyze_game(lists, game, fetched, predictions, predict_raises, game_has_started, spread_bets, total_bets) ==
    LET odds_data == IF fetched = EmptyDict \/ "spread" \notin DOMAIN fetched
                     THEN create_default_odds ELSE fetched
        prediction == [game_id |-> game.id,
                       predicted_spread |-> predictions[1],
                       spread_pick |-> main_spread_pick(game, predictions[1],
                                                        odds_data).spread_pick,
                       spread_confidence |-> predictions[2],
                       total_confidence |-> predictions[4],
                       game_has_started |-> game_has_started]
        all_predictions == Append(lists.all_predictions, prediction)
    IN IF predict_raises
       THEN lists
       ELSE IF "EARLY_SEASON_END_DATE" \in ConfigNames
            THEN [all_predictions |-> all_predictions,
                  all_bets |-> lists.all_bets \o spread_bets \o total_bets]
            \* config.EARLY_SEASON_END_DATE raises AttributeError at line 555
            ELSE [all_predictions |-> all_predictions, all_bets |-> lists.all_bets]

StartAnalysis ==
    /\ call = NoFn
    /\ call' = [fn |-> "main", args |-> <<>>,
                out |-> [all_predictions |-> <<>>, all_bets |-> <<>>]]
    /\ UNCHANGED <<dbVars, selVars>>

AnalyzeGame ==
    /\ call.fn = "main"
    \* fetched: what get_odds_for_team_date may return: nothing, odds without a
    \* spread, a market; predictions: <<spread, its confidence, total, its confidence>>
    /\ \E game \in BetGames,
          fetched \in {EmptyDict,
                       [total |-> [line |-> 1500, over_odds |-> -110, under_odds |-> -110]],
                       [spread |-> [home_spread |-> -105, away_spread |-> 105,
                                    home_odds |-> -105, away_odds |-> -115],
                        total |-> [line |-> 1400, over_odds |-> -110, under_odds |-> -110]]},
          predictions \in {<<30, 360, 1456, 350>>, <<-120, 525, 1600, 525>>,
                           <<80, 850, 1300, 616>>},
          predict_raises \in BOOLEAN, game_has_started \in BOOLEAN :
          /\ game \notin Range(call.args)
          /\ LET odds_data == IF fetched = EmptyDict \/ "spread" \notin DOMAIN fetched
                              THEN create_default_odds ELSE fetched
             IN \E spread_bets \in create_bet_from_prediction(
                                       game, "spread", predictions[1], predictions[2],
                                       odds_data),
                   total_bets \in create_bet_from_prediction(
                                      game, "total", predictions[3], predictions[4],
                                      odds_data) :
                   call' = [fn |-> "main", args |-> Append(call.args, game),
                            out |-> analyze_game(call.out, game, fetched, predictions,
                                                 predict_raises, game_has_started,
                                                 spread_bets, total_bets)]
    /\ UNCHANGED <<dbVars, selVars>>

NextMain == StartAnalysis \/ AnalyzeGame

SpecMain == Init /\ [][NextMain]_vars

\* C27: every game in all_predictions has exactly one spread bet and one
\* total bet in all_bets, started or not and recommended or not.
C27_PredictedGameHasItsBets ==
    call.fn = "main" =>
        \A i \in 1..Len(call.out.all_predictions) :
            \A bet_type \in {"Spread", "Total"} :
                Cardinality({j \in 1..Len(call.out.all_bets) :
                                /\ call.out.all_bets[j].game_id
                                       = call.out.all_predictions[i].game_id
                                /\ call.out.all_bets[j].bet_type = bet_type}) = 1

(***************************************************************************)
(* The picks table once more: best-bet flags and locks.                    *)
(***************************************************************************)
\* C28: a locked pick keeps its best-bet status whatever ModelPicksDB
\* operation follows: no step changes is_best_bet or best_bet_rank of a row
\* that is locked, so a later mark_best_bets with another shortlist leaves
\* the flags recorded before the game started.
C28_LockedKeepsBestBet ==
    [][\A k \in Keys :
          (model_picks[k] # NoRow /\ model_picks[k].is_locked) =>
              /\ model_picks'[k].is_best_bet = model_picks[k].is_best_bet
              /\ model_picks'[k].best_bet_rank = model_picks[k].best_bet_rank]_vars

(***************************************************************************)
(* save_pick as the two database requests it makes, interleaved with       *)
(* lock_started_games.  While a save_pick is between its select and its    *)
(* write, call holds the pick and the row the select returned.             *)
(***************************************************************************)
\* save_pick, lines 45-51: the select of the pick's row
SavePickSelect(pick) ==
    /\ call = NoFn
    /\ call' = [fn |-> "save_pick", args |-> <<pick>>,
                out |-> <<model_picks[KeyOf(pick)]>>]
    /\ UNCHANGED <<dbVars, selVars>>

\* save_pick, lines 53-67: the decision on the row selected, and the write
SavePickWrite ==
    /\ call.fn = "save_pick"
    /\ LET pick == call.args[1]
           existing == call.out[1]
           k == KeyOf(pick)
       IN IF existing # NoRow
          THEN IF existing.is_locked
               THEN /\ model_picks' = model_picks
                    /\ ret' = [op |-> "save_pick", value |-> FALSE, count |-> 0]
               ELSE /\ model_picks' = [model_picks EXCEPT ![k] = UpdateRow(@, pick)]
                    /\ ret' = [op |-> "save_pick", value |-> TRUE, count |-> 0]
          ELSE /\ model_picks' = [model_picks EXCEPT ![k] = InsertRow(pick)]
               /\ ret' = [op |-> "save_pick", value |-> TRUE, count |-> 0]
    /\ call' = NoFn
    /\ UNCHANGED <<started, selVars>>

NextRace ==
    \/ \E pick \in DbPicks : SavePickSelect(pick)
    \/ SavePickWrite
    \/ LockStartedGames

SpecRace == Init /\ [][NextRace]_vars

\* C29: under every interleaving of save_pick with lock_started_games a
\* pick that is locked is not overwritten by save_pick afterwards nor reset
\* to is_locked = False.
C29_LockedPickStaysAsItIs ==
    [][\A k \in Keys :
          (model_picks[k] # NoRow /\ model_picks[k].is_locked) =>
              /\ model_picks'[k].is_locked
              /\ model_picks'[k].pick = model_picks[k].pick]_vars

(***************************************************************************)
(* The three graders of a spread pick: model_picks_db.py,                  *)
(* analyze_best_bets.py and analyze_qualified_bets.py.  Scores are in      *)
(* points, lines in tenths.                                                *)
(***************************************************************************)
\* ModelPicksDB._calculate_spread_result
calculate_spread_result(pick, home_score, away_score) ==
    LET parsed == ParseSpreadPick(pick.pick)
        actual_margin == 10 * (home_score - away_score)
    IN IF parsed.pick_team = pick.home_team
       THEN actual_margin > -parsed.pick_spread
       ELSE actual_margin < parsed.pick_spread

\* analyze_best_bets.check_bet_result for a spread bet: won
check_bet_result(bet, game) ==
    LET actual_spread == 10 * (game.home_score - game.away_score)
        pick == bet.pick
        spaces == {i \in 1..Len(pick) : pick[i] = " "}
        last == CHOOSE i \in spaces : \A j \in spaces : j <= i
        \* pick.rsplit(' ', 1)
        parts == IF spaces = {} THEN <<pick>>
                 ELSE <<SubSeq(pick, 1, last - 1), SubSeq(pick, last + 1, Len(pick))>>
        team_name == parts[1]
        spread_value == float(parts[2]).value
    IN IF Len(parts) # 2 THEN FALSE
       ELSE IF team_name = game.home_team THEN actual_spread > spread_value
       ELSE IF team_name = game.away_team THEN actual_spread < spread_value
       ELSE FALSE

\* analyze_qualified_bets, lines 142-159: bet['result'] of a spread bet
qualified_bet_result(bet) ==
    LET game == bet.game
        parsed == ParseSpreadPick(bet.pick)
        actual_margin == 10 * (game.home_score - game.away_score)
    IN IF parsed.pick_team = game.home_team
       THEN actual_margin > -parsed.pick_spread
       ELSE actual_margin < -parsed.pick_spread

\* final scores: the home team ahead or behind by up to MaxScoreGap points
GradeSpreadPick ==
    /\ call = NoFn
    /\ \E teams \in BetGames, home_side \in BOOLEAN, line \in HalfPointLines,
          score \in {<<70 + gap, 70>> : gap \in (-MaxScoreGap)..MaxScoreGap} :
          LET pick == SpreadPickString(IF home_side THEN teams.home_team
                                                    ELSE teams.away_team, line)
              game == [home_team |-> teams.home_team, away_team |-> teams.away_team,
                       home_score |-> score[1], away_score |-> score[2]]
          IN call' = [fn |-> "grade_spread_pick",
                      args |-> [pick |-> pick, home_side |-> home_side, line |-> line,
                                game |-> game],
                      out |-> <<calculate_spread_result(
                                    [pick |-> pick, home_team |-> game.home_team],
                                    score[1], score[2]),
                                check_bet_result([bet_type |-> "Spread", pick |-> pick],
                                                 game),
                                qualified_bet_result([bet_type |-> "spread",
                                                      pick |-> pick, game |-> game])>>]
    /\ UNCHANGED <<dbVars, selVars>>

NextGrade == GradeSpreadPick

SpecGrade == Init /\ [][NextGrade]_vars

\* C30: the three graders return the same verdict for every spread pick and
\* final score: the picked side wins exactly when its score plus its line
\* exceeds the opponent's score.
C30_GradersAgree ==
    call.fn = "grade_spread_pick" =>
        LET game == call.args.game
            covers == IF call.args.home_side
                      THEN 10 * game.home_score + call.args.line > 10 * game.away_score
                      ELSE 10 * game.away_score + call.args.line > 10 * game.home_score
        IN /\ call.out[1] = covers
           /\ call.out[2] = covers
           /\ call.out[3] = covers

====
